---------------------------- MODULE Spec2Model ----------------------------
(***************************************************************************)
(* Identity-keyed append-log store of the MCP CRM chat assistant:          *)
(* the key normalizers, the row lookup, the reconciler                     *)
(* (appendChatLinesToRow) and the session tracker                          *)
(* (saveConversationToSheet), modelled from the TypeScript sources.        *)
(*                                                                         *)
(* Text that the code inspects character by character (phone numbers and   *)
(* emails) is a sequence of one-character strings.  Text that the code     *)
(* only concatenates (timestamps, summaries, chat lines, the history       *)
(* cell) is a string.                                                      *)
(***************************************************************************)
EXTENDS Integers, Sequences, FiniteSets, TLC

VARIABLES
    nIn,        \* normalizer run: the input (kind, variant, text)
    nOut,       \* normalizer run: result of the first application
    nOut2,      \* normalizer run: result of applying it to nOut
    nPc,        \* normalizer run: "input", "once", "twice"
    sheet,      \* the rows of Sheet1, row 1 first; a row is a sequence of cells
    fQuery,     \* lookup run: the query (email, contact, responseOk)
    fFound,     \* lookup run: what findRowByEmailAndContact returned
    fPc,        \* lookup run: "query", "done"
    calls,      \* the calls made so far, each with its arguments, the request
                \* outcomes it met, what it did, and the sheet before it
    rPc,        \* overlapping calls: where each caller is, "idle" or "looked"
    rArgs,      \* overlapping calls: the arguments of each caller's call
    rFound,     \* overlapping calls: what each caller's lookup returned
    events,     \* overlapping calls: the steps taken so far, in order
    tracker,    \* session: "memory" (fields of the agent object, index.ts) or
                \* "durable" (the SessionState held in the agent's storage)
    userEmail,  \* session: props.user.email
    conversation,           \* session: the recorded messages
    userContactNumber,      \* session: the contact number, <<>> for null
    lastSavedMessageIndex,  \* session: how many messages have been saved
    sPc,        \* session: "new" before init() has run, "ready" after it
    ops,        \* session: the handler calls so far, each with what its flush did
    accessToken,    \* refreshing client: the bearer token it holds
    tokenExpiry,    \* refreshing client: when the token expires (ms), 0 for null
    credentials,    \* refreshing client: refreshToken, clientId, clientSecret
    clock,          \* refreshing client: Date.now() (ms)
    storeCalls      \* refreshing client: its store requests so far, each with the
                    \* token refresh that went before it

normVars == <<nIn, nOut, nOut2, nPc>>
findVars == <<fQuery, fFound, fPc>>
raceVars == <<rPc, rArgs, rFound, events>>
sessVars == <<tracker, userEmail, conversation, userContactNumber,
              lastSavedMessageIndex, sPc, ops>>
tokVars == <<accessToken, tokenExpiry, credentials, clock, storeCalls>>
vars == <<nIn, nOut, nOut2, nPc, sheet, fQuery, fFound, fPc, calls, rPc, rArgs, rFound, events,
          tracker, userEmail, conversation, userContactNumber, lastSavedMessageIndex, sPc, ops,
          accessToken, tokenExpiry, credentials, clock, storeCalls>>

(***************************************************************************)
(* Bounds of the model                                                     *)
(***************************************************************************)
MaxDigits == 12       \* longest generated digit string
MaxEmailLen == 4      \* longest generated email text
MaxFindRows == 2      \* most data rows of a sheet of a lookup run
MaxCalls == 2         \* most reconcile calls of a reconciler run
MaxEvents == 4        \* most steps of a run of overlapping reconcile calls
MaxOps == 6           \* most handler calls of a session, init() included
MaxStoreCalls == 2    \* most store requests of a run of the refreshing client
MaxReplyOps == 5      \* most handler calls of a run of a whole-history tracker
MaxToolCalls == 3     \* most handler calls of a run of the conversation tools

(***************************************************************************)
(* Characters                                                              *)
(***************************************************************************)
DigitChars == {"0", "1", "2", "3", "4", "5", "6", "7", "8", "9"}
SpaceChars == {" ", "\t"}
UpperLetters == <<"A", "B", "C", "D", "E", "F", "G", "H", "I", "J", "K", "L", "M",
                  "N", "O", "P", "Q", "R", "S", "T", "U", "V", "W", "X", "Y", "Z">>
LowerLetters == <<"a", "b", "c", "d", "e", "f", "g", "h", "i", "j", "k", "l", "m",
                  "n", "o", "p", "q", "r", "s", "t", "u", "v", "w", "x", "y", "z">>

IsDigit(c) == c \in DigitChars
IsSpace(c) == c \in SpaceChars
IsUpper(c) == \E i \in 1..26 : UpperLetters[i] = c

\* String.prototype.replace(/\D/g, ''): the digits of s, in order
digitsOnly(s) == SelectSeq(s, IsDigit)

\* String.prototype.trim(): s without its leading and trailing whitespace
RECURSIVE trimStart(_)
trimStart(s) ==
    IF s # <<>> /\ IsSpace(Head(s)) THEN trimStart(Tail(s)) ELSE s

RECURSIVE trimEnd(_)
trimEnd(s) ==
    IF s # <<>> /\ IsSpace(s[Len(s)]) THEN trimEnd(SubSeq(s, 1, Len(s) - 1)) ELSE s

trim(s) == trimEnd(trimStart(s))

\* String.prototype.toLowerCase() on the letters A-Z
lowerChar(c) ==
    IF IsUpper(c) THEN LowerLetters[CHOOSE i \in 1..26 : UpperLetters[i] = c] ELSE c

toLowerCase(s) == [i \in 1..Len(s) |-> lowerChar(s[i])]

(***************************************************************************)
(* Key normalizers                                                         *)
(***************************************************************************)
\* faulty variant: the trim is forgotten
normalizeEmail_noTrim(email) == toLowerCase(email)

\* GoogleSheetsService.normalizeEmail
normalizeEmail(email) == toLowerCase(trim(email))

\* MyMCP.normalizeEmail (durable-slot tracker)
MyMCP_normalizeEmail(email) == toLowerCase(trim(email))

\* faulty variant: the country code is dropped from any number of 11 or more digits
normalizeContactNumber_atLeast11(contactNumber) ==
    LET digits == digitsOnly(contactNumber)
    IN  IF Len(digits) >= 11 /\ digits[1] = "1"
        THEN SubSeq(digits, 2, Len(digits))
        ELSE IF Len(digits) = 10 THEN digits
        ELSE trim(contactNumber)

\* faulty variant: the country code is never dropped
normalizeContactNumber_keepCountry(contactNumber) ==
    LET digits == digitsOnly(contactNumber)
    IN  IF Len(digits) = 10 \/ Len(digits) = 11 THEN digits
        ELSE trim(contactNumber)

\* GoogleSheetsService.normalizeContactNumber
normalizeContactNumber(contactNumber) ==
    LET digits == digitsOnly(contactNumber)
    IN  IF Len(digits) = 11 /\ digits[1] = "1"
        THEN SubSeq(digits, 2, Len(digits))      \* substring(1)
        ELSE IF Len(digits) = 10 THEN digits
        ELSE trim(contactNumber)                 \* "Return as-is"

\* faulty variant: the contact number kept as typed
MyMCP_normalizeContactNumber_raw(contactNumber) == trim(contactNumber)

\* MyMCP.normalizeContactNumber (durable-slot tracker): the same text
MyMCP_normalizeContactNumber(contactNumber) ==
    LET digits == digitsOnly(contactNumber)
    IN  IF Len(digits) = 11 /\ digits[1] = "1"
        THEN SubSeq(digits, 2, Len(digits))
        ELSE IF Len(digits) = 10 THEN digits
        ELSE trim(contactNumber)

\* MyMCP.normalizeContactNumber (session-object tracker): falls back to the digits
Session_normalizeContactNumber(contactNumber) ==
    LET digits == digitsOnly(contactNumber)
    IN  IF Len(digits) = 11 /\ digits[1] = "1"
        THEN SubSeq(digits, 2, Len(digits))
        ELSE IF Len(digits) = 10 THEN digits
        ELSE digits

PhoneVariants == {"service", "durable", "session"}
EmailVariants == {"service", "durable"}

\* the normalizer of each variant of the program
normalizePhoneOf(variant, s) ==
    CASE variant = "service" -> normalizeContactNumber(s)
      [] variant = "durable" -> MyMCP_normalizeContactNumber(s)
      [] variant = "session" -> Session_normalizeContactNumber(s)

normalizeEmailOf(variant, s) ==
    CASE variant = "service" -> normalizeEmail(s)
      [] variant = "durable" -> MyMCP_normalizeEmail(s)

(***************************************************************************)
(* The row store (Sheet1 of the spreadsheet)                               *)
(*                                                                         *)
(* A row is <<timestamp, email, contact, summary, history, userId>>; the   *)
(* email and contact cells are character sequences, the others strings.    *)
(***************************************************************************)
LastScannedRow == 1000       \* the lookup reads Sheet1!A2:F1000

Chars_UserEmail == <<"U", "s", "e", "r", " ", "E", "m", "a", "i", "l">>
Chars_ContactNumber ==
    <<"C", "o", "n", "t", "a", "c", "t", " ", "N", "u", "m", "b", "e", "r">>

\* the header row ensureHeaders writes
HeaderRow ==
    <<"Timestamp", Chars_UserEmail, Chars_ContactNumber,
      "Session Summary", "Chat History", "User ID">>

emptyCell(col) == IF col \in {2, 3} THEN <<>> ELSE ""

\* row[col - 1] || '' : the cell of a row as read, empty when the row is too short
cell(row, col) == IF col <= Len(row) THEN row[col] ELSE emptyCell(col)

\* a row as a range read returns it: without its trailing empty cells
RECURSIVE rowAsRead(_)
rowAsRead(row) ==
    IF row # <<>> /\ row[Len(row)] = emptyCell(Len(row))
    THEN rowAsRead(SubSeq(row, 1, Len(row) - 1))
    ELSE row

\* data.values of a read of rows firstRow..lastRow
getValues(sh, firstRow, lastRow) ==
    LET last == IF Len(sh) < lastRow THEN Len(sh) ELSE lastRow
    IN  [i \in 1..(IF last < firstRow THEN 0 ELSE last - firstRow + 1) |->
            rowAsRead(sh[firstRow + i - 1])]

\* POST Sheet1:append
appendRow(sh, values) == Append(sh, values)

\* faulty variant: the write drops the rows below the written one
updateRow_clearsBelow(sh, rowIndex, values) ==
    SubSeq(sh, 1, rowIndex - 1) \o <<values>>

\* PUT Sheet1!A{rowIndex}:F{rowIndex}
updateRow(sh, rowIndex, values) == [sh EXCEPT ![rowIndex] = values]

NotFound == [found |-> FALSE, rowIndex |-> 0, values |-> <<>>]

\* faulty variant: the last matching row is returned
findRowByEmailAndContact_lastMatch(sh, email, contactNumber, responseOk) ==
    LET values == getValues(sh, 2, LastScannedRow)
        matching == {i \in 1..Len(values) :
                        /\ Len(values[i]) >= 3
                        /\ normalizeEmail(cell(values[i], 2)) = normalizeEmail(email)
                        /\ normalizeContactNumber(cell(values[i], 3))
                               = normalizeContactNumber(contactNumber)}
    IN  IF ~responseOk \/ matching = {} THEN NotFound
        ELSE LET i == CHOOSE k \in matching : \A m \in matching : k >= m
             IN  [found |-> TRUE, rowIndex |-> i + 1, values |-> values[i]]

\* GoogleSheetsService.findRowByEmailAndContact; responseOk is response.ok of
\* its range read
findRowByEmailAndContact(sh, email, contactNumber, responseOk) ==
    IF ~responseOk THEN NotFound
    ELSE
        LET values == getValues(sh, 2, LastScannedRow)
            normalizedEmail == normalizeEmail(email)
            normalizedContact == normalizeContactNumber(contactNumber)
            matching == {i \in 1..Len(values) :
                            /\ Len(values[i]) >= 3
                            /\ normalizeEmail(cell(values[i], 2)) = normalizedEmail
                            /\ normalizeContactNumber(cell(values[i], 3)) = normalizedContact}
        IN  IF matching = {} THEN NotFound
            ELSE LET i == CHOOSE k \in matching : \A m \in matching : k <= m
                 IN  [found |-> TRUE, rowIndex |-> i + 1, values |-> values[i]]

(***************************************************************************)
(* The reconciler                                                          *)
(***************************************************************************)
\* newChatLines.join('\n')
RECURSIVE joinLines(_)
joinLines(lines) ==
    IF lines = <<>> THEN ""
    ELSE IF Len(lines) = 1 THEN lines[1]
    ELSE lines[1] \o "\n" \o joinLines(Tail(lines))

\* faulty variant: the new lines replace the stored history
updatedRowOf_overwrites(found, email, contactNumber, newChatLines, otherValues) ==
    <<otherValues[1], email, contactNumber, otherValues[2],
      joinLines(newChatLines), otherValues[3]>>

\* faulty variant: the new lines follow the stored history without a newline
updatedRowOf_noSeparator(found, email, contactNumber, newChatLines, otherValues) ==
    <<otherValues[1], email, contactNumber, otherValues[2],
      cell(found.values, 5) \o joinLines(newChatLines), otherValues[3]>>

\* the row written over a found row (appendChatLinesToRow, the found branch)
updatedRowOf(found, email, contactNumber, newChatLines, otherValues) ==
    LET existingChatHistory == cell(found.values, 5)
        updatedChatHistory ==
            IF existingChatHistory # ""
            THEN existingChatHistory \o "\n" \o joinLines(newChatLines)
            ELSE joinLines(newChatLines)
    IN  <<otherValues[1], email, contactNumber, otherValues[2],
          updatedChatHistory, otherValues[3]>>

\* faulty variant: the email and the contact number in each other's column
newRowOf_swapped(email, contactNumber, newChatLines, otherValues) ==
    <<otherValues[1], contactNumber, email, otherValues[2],
      joinLines(newChatLines), otherValues[3]>>

\* faulty variant: only the first of the new lines is written
newRowOf_firstLine(email, contactNumber, newChatLines, otherValues) ==
    <<otherValues[1], email, contactNumber, otherValues[2],
      newChatLines[1], otherValues[3]>>

\* the row appended when no row is found (appendChatLinesToRow, the else branch)
newRowOf(email, contactNumber, newChatLines, otherValues) ==
    <<otherValues[1], email, contactNumber, otherValues[2],
      joinLines(newChatLines), otherValues[3]>>

\* faulty variant: a write answered with an error is sent again and then applied
appendChatLinesToRow_retries(sh, email, contactNumber, newChatLines, otherValues, readOk, writeOk) ==
    LET found == findRowByEmailAndContact(sh, email, contactNumber, readOk)
        write == IF found.found THEN "PUT" ELSE "POST"
    IN  [sheet |-> IF found.found
                   THEN updateRow(sh, found.rowIndex,
                            updatedRowOf(found, email, contactNumber,
                                         newChatLines, otherValues))
                   ELSE appendRow(sh, newRowOf(email, contactNumber,
                                               newChatLines, otherValues)),
         outcome |-> IF found.found THEN "updated" ELSE "created",
         requests |-> IF writeOk THEN <<"GET", write>> ELSE <<"GET", write, write>>,
         rowIndex |-> IF found.found THEN found.rowIndex ELSE Len(sh) + 1]

\* faulty variant: the range is read a second time before the write
appendChatLinesToRow_readsTwice(sh, email, contactNumber, newChatLines, otherValues, readOk, writeOk) ==
    LET found == findRowByEmailAndContact(sh, email, contactNumber, readOk)
        write == IF found.found THEN "PUT" ELSE "POST"
    IN  [sheet |-> IF ~writeOk THEN sh
                   ELSE IF found.found
                   THEN updateRow(sh, found.rowIndex,
                            updatedRowOf(found, email, contactNumber,
                                         newChatLines, otherValues))
                   ELSE appendRow(sh, newRowOf(email, contactNumber,
                                               newChatLines, otherValues)),
         outcome |-> IF ~writeOk THEN "failed"
                     ELSE IF found.found THEN "updated" ELSE "created",
         requests |-> <<"GET", "GET", write>>,
         rowIndex |-> IF found.found THEN found.rowIndex ELSE Len(sh) + 1]

\* appendChatLinesToRow after its lookup returned found: the update of the
\* found row or the append of a new one
reconcileFound(found, sh, email, contactNumber, newChatLines, otherValues, writeOk) ==
    IF found.found
    THEN IF writeOk
         THEN [sheet |-> updateRow(sh, found.rowIndex,
                             updatedRowOf(found, email, contactNumber,
                                          newChatLines, otherValues)),
               outcome |-> "updated", requests |-> <<"GET", "PUT">>,
               rowIndex |-> found.rowIndex]
         ELSE [sheet |-> sh, outcome |-> "failed",
               requests |-> <<"GET", "PUT">>, rowIndex |-> found.rowIndex]
    ELSE IF writeOk
         THEN [sheet |-> appendRow(sh, newRowOf(email, contactNumber,
                                                newChatLines, otherValues)),
               outcome |-> "created", requests |-> <<"GET", "POST">>,
               rowIndex |-> Len(sh) + 1]
         ELSE [sheet |-> sh, outcome |-> "failed",
               requests |-> <<"GET", "POST">>, rowIndex |-> 0]

\* GoogleSheetsService.appendChatLinesToRow run from start to end on sheet sh;
\* readOk and writeOk are response.ok of its range read and of its write.
\* outcome: "rejected" and "failed" are thrown errors.  requests: the HTTP
\* requests issued, in order.
appendChatLinesToRow(sh, email, contactNumber, newChatLines, otherValues, readOk, writeOk) ==
    IF email = <<>> \/ contactNumber = <<>>
    THEN [sheet |-> sh, outcome |-> "rejected", requests |-> <<>>, rowIndex |-> 0]
    ELSE IF newChatLines = <<>>
    THEN [sheet |-> sh, outcome |-> "noop", requests |-> <<>>, rowIndex |-> 0]
    ELSE reconcileFound(findRowByEmailAndContact(sh, email, contactNumber, readOk),
                        sh, email, contactNumber, newChatLines, otherValues, writeOk)

\* findRowByEmailAndContact of the service that compares the cells as stored
\* (row[1] === email && row[2] === contactNumber)
Exact_findRowByEmailAndContact(sh, email, contactNumber, responseOk) ==
    IF ~responseOk THEN NotFound
    ELSE
        LET values == getValues(sh, 2, LastScannedRow)
            matching == {i \in 1..Len(values) :
                            /\ Len(values[i]) >= 3
                            /\ values[i][2] = email
                            /\ values[i][3] = contactNumber}
        IN  IF matching = {} THEN NotFound
            ELSE LET i == CHOOSE k \in matching : \A m \in matching : k <= m
                 IN  [found |-> TRUE, rowIndex |-> i + 1, values |-> values[i]]

\* the row that service writes over a found row
Exact_updatedRowOf(found, email, contactNumber, newChatLines, otherValues) ==
    LET prevHistory == cell(found.values, 5)
        mergedHistory ==
            IF Len(newChatLines) > 0
            THEN IF prevHistory # ""
                 THEN prevHistory \o "\n" \o joinLines(newChatLines)
                 ELSE joinLines(newChatLines)
            ELSE prevHistory
    IN  <<otherValues[1], email, contactNumber, otherValues[2],
          mergedHistory, otherValues[3]>>

\* appendChatLinesToRow of that service, run from start to end: it has no
\* check of its arguments
Exact_appendChatLinesToRow(sh, email, contactNumber, newChatLines, otherValues, readOk, writeOk) ==
    LET found == Exact_findRowByEmailAndContact(sh, email, contactNumber, readOk)
    IN  IF found.found
        THEN IF writeOk
             THEN [sheet |-> updateRow(sh, found.rowIndex,
                                 Exact_updatedRowOf(found, email, contactNumber,
                                                    newChatLines, otherValues)),
                   outcome |-> "updated", requests |-> <<"GET", "PUT">>,
                   rowIndex |-> found.rowIndex]
             ELSE [sheet |-> sh, outcome |-> "failed",
                   requests |-> <<"GET", "PUT">>, rowIndex |-> found.rowIndex]
        ELSE IF writeOk
             THEN [sheet |-> appendRow(sh, newRowOf(email, contactNumber,
                                                    newChatLines, otherValues)),
                   outcome |-> "created", requests |-> <<"GET", "POST">>,
                   rowIndex |-> Len(sh) + 1]
             ELSE [sheet |-> sh, outcome |-> "failed",
                   requests |-> <<"GET", "POST">>, rowIndex |-> 0]

(***************************************************************************)
(* The parts of the state a run does not use stay as they are here         *)
(***************************************************************************)
NormIdle == nIn = [kind |-> "none"] /\ nOut = <<>> /\ nOut2 = <<>> /\ nPc = "idle"
FindIdle == fQuery = [email |-> <<>>, contact |-> <<>>, responseOk |-> TRUE]
            /\ fFound = NotFound /\ fPc = "idle"
NoCalls == calls = <<>>
Callers == {1, 2}
NoArgs == [email |-> <<>>, contact |-> <<>>, lines |-> <<>>, meta |-> <<>>]
RaceIdle == /\ rPc = [p \in Callers |-> "idle"]
            /\ rArgs = [p \in Callers |-> NoArgs]
            /\ rFound = [p \in Callers |-> NotFound]
            /\ events = <<>>
SessIdle == /\ tracker = "none" /\ userEmail = <<>> /\ conversation = <<>>
            /\ userContactNumber = <<>> /\ lastSavedMessageIndex = 0
            /\ sPc = "idle" /\ ops = <<>>
NoCredentials == [refreshToken |-> "", clientId |-> "", clientSecret |-> ""]
TokIdle == /\ accessToken = "" /\ tokenExpiry = 0 /\ credentials = NoCredentials
           /\ clock = 0 /\ storeCalls = <<>>

(***************************************************************************)
(* Inputs of the normalizer runs                                           *)
(***************************************************************************)
\* every string of at most MaxDigits digits over a two-digit alphabet
DigitStrings == UNION {[1..n -> {"1", "5"}] : n \in 0..MaxDigits}

\* d with a dash after its third and its sixth character
dashed(d) ==
    LET piece(i) == IF i \in {3, 6} /\ i < Len(d) THEN <<d[i], "-">> ELSE <<d[i]>>
        RECURSIVE from(_)
        from(i) == IF i > Len(d) THEN <<>> ELSE piece(i) \o from(i + 1)
    IN  from(1)

PhoneStyles == {"plain", "dashed", "intl", "padded"}

\* the ways a user writes the digit string d
decorate(d, style) ==
    CASE style = "plain"  -> d
      [] style = "dashed" -> dashed(d)
      [] style = "intl"   -> IF d = <<>> THEN <<"+">>
                             ELSE <<"+", Head(d), " ">> \o dashed(Tail(d))
      [] style = "padded" -> <<" ">> \o dashed(d) \o <<"\t">>

Phone10 == <<"5", "5", "5", "1", "2", "3", "4", "5", "6", "7">>     \* "5551234567"
Phone11 == <<"1">> \o Phone10                                       \* "15551234567"
PhoneIntl == <<"+", "1", " ", "5", "5", "5", "-", "1", "2", "3", "-",
               "4", "5", "6", "7">>                                 \* "+1 555-123-4567"
PhoneDashed == <<"5", "5", "5", "-", "1", "2", "3", "-", "4", "5", "6", "7">>
Phone7 == <<"5", "5", "5", "1", "2", "3", "4">>                     \* "5551234"
Phone7Dashed == <<"5", "5", "5", "-", "1", "2", "3", "4">>          \* "555-1234"

ExamplePhones == {Phone10, Phone11, PhoneIntl, PhoneDashed, Phone7, Phone7Dashed}

PhoneInputs ==
    {decorate(d, st) : d \in DigitStrings, st \in PhoneStyles} \cup ExamplePhones

EmailFooBar == <<" ", " ", "F", "o", "o", "@", "B", "a", "r", ".", "c", "o", "m", " ">>
EmailChars == {"F", "f", "@", " ", "\t"}
EmailInputs ==
    UNION {[1..n -> EmailChars] : n \in 0..MaxEmailLen} \cup {EmailFooBar}

NormInputs ==
    {[kind |-> "phone", variant |-> v, text |-> s] : v \in PhoneVariants, s \in PhoneInputs}
    \cup
    {[kind |-> "email", variant |-> v, text |-> s] : v \in EmailVariants, s \in EmailInputs}

(***************************************************************************)
(* Normalizer runs: the normalizers applied to every input                 *)
(***************************************************************************)
NormInit ==
    /\ nIn \in NormInputs
    /\ nOut = <<>>
    /\ nOut2 = <<>>
    /\ nPc = "input"
    /\ sheet = <<>>
    /\ FindIdle /\ NoCalls /\ RaceIdle /\ SessIdle /\ TokIdle

NormalizePhone ==
    /\ nPc = "input" /\ nIn.kind = "phone"
    /\ nOut' = normalizePhoneOf(nIn.variant, nIn.text)
    /\ nPc' = "once"
    /\ UNCHANGED <<nIn, nOut2, sheet, findVars, calls, raceVars, sessVars, tokVars>>

NormalizePhoneAgain ==
    /\ nPc = "once" /\ nIn.kind = "phone"
    /\ nOut2' = normalizePhoneOf(nIn.variant, nOut)
    /\ nPc' = "twice"
    /\ UNCHANGED <<nIn, nOut, sheet, findVars, calls, raceVars, sessVars, tokVars>>

NormalizeEmail ==
    /\ nPc = "input" /\ nIn.kind = "email"
    /\ nOut' = normalizeEmailOf(nIn.variant, nIn.text)
    /\ nPc' = "once"
    /\ UNCHANGED <<nIn, nOut2, sheet, findVars, calls, raceVars, sessVars, tokVars>>

NormNext == NormalizePhone \/ NormalizePhoneAgain \/ NormalizeEmail

SpecNorm == NormInit /\ [][NormNext]_vars

(***************************************************************************)
(* Lookup runs: findRowByEmailAndContact on sheets of rows stored in the   *)
(* ways users write an email and a contact number                          *)
(***************************************************************************)
EmailA == <<"a", "@", "x">>                   \* "a@x"
EmailARaw == <<"A", "@", "x", " ">>           \* "A@x "
EmailB == <<"b", "@", "x">>                   \* "b@x"

StoredContacts == {Phone10, PhoneIntl, Phone7, Phone7Dashed, <<>>}
QueryContacts == {Phone10, Phone11, Phone7, Phone7Dashed}

FindRows ==
    {<<"t", e, c, "s", "h", "u">> : e \in {EmailA, EmailARaw}, c \in StoredContacts}
    \cup {<<"t", e, <<>>, "", "", "">> : e \in {EmailA, EmailARaw}}

FindSheets ==
    UNION {{<<HeaderRow>> \o rows : rows \in [1..n -> FindRows]} : n \in 0..MaxFindRows}

FindInit ==
    /\ NormIdle
    /\ sheet \in FindSheets
    /\ fQuery \in [email : {EmailA, EmailARaw}, contact : QueryContacts,
                   responseOk : BOOLEAN]
    /\ fFound = NotFound
    /\ fPc = "query"
    /\ NoCalls /\ RaceIdle /\ SessIdle /\ TokIdle

FindRow ==
    /\ fPc = "query"
    /\ fFound' = findRowByEmailAndContact(sheet, fQuery.email, fQuery.contact,
                                          fQuery.responseOk)
    /\ fPc' = "done"
    /\ UNCHANGED <<normVars, sheet, fQuery, calls, raceVars, sessVars, tokVars>>

FindNext == FindRow

SpecFind == FindInit /\ [][FindNext]_vars

\* the data rows of the sheet, as a whole-sheet read returns them
dataRows(sh) == getValues(sh, 2, Len(sh))

\* C6: findRowByEmailAndContact matches a stored row exactly when the stored
\* email and contact, normalized like the query, equal the normalized query;
\* "+1 555-123-4567" is matched by "5551234567", and two contact strings with
\* the same digit sequence always match each other.
C6_LookupMatchesSameDigits ==
    (fPc = "done" /\ fQuery.responseOk) =>
        LET rows == dataRows(sheet)
            sameKey(r) ==
                /\ normalizeEmail(cell(r, 2)) = normalizeEmail(fQuery.email)
                /\ normalizeContactNumber(cell(r, 3)) = normalizeContactNumber(fQuery.contact)
            sameDigits(r) ==
                /\ normalizeEmail(cell(r, 2)) = normalizeEmail(fQuery.email)
                /\ cell(r, 3) # <<>>
                /\ digitsOnly(cell(r, 3)) = digitsOnly(fQuery.contact)
        IN  /\ fFound.found <=> \E i \in 1..Len(rows) : sameKey(rows[i])
            /\ (\E i \in 1..Len(rows) : cell(rows[i], 3) = PhoneIntl /\ sameKey(rows[i])
                    /\ fQuery.contact = Phone10) => fFound.found
            /\ (\E i \in 1..Len(rows) : sameDigits(rows[i])) => fFound.found

\* the rows of the sheet, by sheet row number, that hold the key of the query
queryRows ==
    {i \in 2..Len(sheet) :
        /\ normalizeEmail(cell(sheet[i], 2)) = normalizeEmail(fQuery.email)
        /\ normalizeContactNumber(cell(sheet[i], 3)) = normalizeContactNumber(fQuery.contact)}

\* C25: the lookup returns the first matching row in row order, and the index
\* it returns is that row's 1-based sheet row number (its 0-based position in
\* the data range plus 2, the header being row 1); later rows with the same
\* key are never returned.
C25_FirstMatchInRowOrder ==
    (fPc = "done" /\ fQuery.responseOk)
    => /\ fFound.found <=> queryRows # {}
       /\ fFound.found
          => /\ fFound.rowIndex \in queryRows
             /\ \A i \in queryRows : fFound.rowIndex <= i
             /\ fFound.values = rowAsRead(sheet[fFound.rowIndex])

C25_Witness ==
    /\ fPc = "done" /\ fQuery.responseOk
    /\ queryRows = {2, 3}
    /\ sheet[2] # sheet[3]
    /\ fFound.found /\ fFound.rowIndex = 2

(***************************************************************************)
(* Reconciler runs: appendChatLinesToRow called one call at a time         *)
(***************************************************************************)
\* the timestamp, summary and userId handed to the n-th call
metaOf(n) == <<"t" \o ToString(n), "s" \o ToString(n), "u1">>

RecLines == {<<"line1">>, <<"line2">>, <<"line2", "line3">>}

\* the arguments of a call: (email, contact, new lines)
RecArgs ==
    {<<EmailA, Phone10, l>> : l \in RecLines}
    \cup {<<EmailA, c, <<"line1">>>> : c \in {PhoneIntl, Phone7Dashed}}
    \cup {<<EmailARaw, Phone10, l>> : l \in {<<"line1">>, <<"line2">>}}
    \cup {<<EmailA, Phone10, <<>>>>, <<EmailA, <<>>, <<"line1">>>>,
          <<(<<>>), Phone10, <<"line1">>>>}

\* response.ok of the range read and of the write of one call
RequestOutcomes == {<<TRUE, TRUE>>, <<FALSE, TRUE>>, <<TRUE, FALSE>>}

OldRow == <<"t0", EmailA, Phone10, "s0", "old", "u1">>

\* rows of the identity (a@x, 5551234567) without history: the cells after the
\* contact never written, and the history cell empty
ShortRow == <<"t0", EmailA, Phone10>>
BlankHistoryRow == <<"t0", EmailA, Phone10, "s0", "", "u1">>

RecInit ==
    /\ NormIdle /\ FindIdle /\ RaceIdle /\ SessIdle /\ TokIdle
    /\ sheet \in {<<>>, <<HeaderRow>>, <<HeaderRow, OldRow>>, <<HeaderRow, ShortRow>>,
                  <<HeaderRow, BlankHistoryRow>>}
    /\ calls = <<>>

ReconcileCall(args, ok) ==
    /\ Len(calls) < MaxCalls
    /\ LET meta == metaOf(Len(calls) + 1)
           r == appendChatLinesToRow(sheet, args[1], args[2], args[3], meta, ok[1], ok[2])
       IN  /\ sheet' = r.sheet
           /\ calls' = Append(calls,
                  [op |-> "reconcile", email |-> args[1], contact |-> args[2],
                   lines |-> args[3], meta |-> meta, readOk |-> ok[1], writeOk |-> ok[2],
                   outcome |-> r.outcome, requests |-> r.requests,
                   rowIndex |-> r.rowIndex, before |-> sheet])
    /\ UNCHANGED <<normVars, findVars, raceVars, sessVars, tokVars>>

RecNext == \E args \in RecArgs, ok \in RequestOutcomes : ReconcileCall(args, ok)

SpecRec == RecInit /\ [][RecNext]_vars

\* the indexes of the data rows of sh (rows 2 and below) that hold the identity
\* (email, contact)
identityRows(sh, email, contact) ==
    {i \in 2..Len(sh) :
        /\ normalizeEmail(cell(sh[i], 2)) = normalizeEmail(email)
        /\ normalizeContactNumber(cell(sh[i], 3)) = normalizeContactNumber(contact)}

\* one call of the appendChatLinesToRow that compares the cells as stored
ExactReconcileCall(args, ok) ==
    /\ Len(calls) < MaxCalls
    /\ LET meta == metaOf(Len(calls) + 1)
           r == Exact_appendChatLinesToRow(sheet, args[1], args[2], args[3], meta,
                                           ok[1], ok[2])
       IN  /\ sheet' = r.sheet
           /\ calls' = Append(calls,
                  [op |-> "reconcile", email |-> args[1], contact |-> args[2],
                   lines |-> args[3], meta |-> meta, readOk |-> ok[1], writeOk |-> ok[2],
                   outcome |-> r.outcome, requests |-> r.requests,
                   rowIndex |-> r.rowIndex, before |-> sheet])
    /\ UNCHANGED <<normVars, findVars, raceVars, sessVars, tokVars>>

ExactNext == \E args \in RecArgs, ok \in RequestOutcomes : ExactReconcileCall(args, ok)

SpecExact == RecInit /\ [][ExactNext]_vars

\* the sheet after the n-th call: only the calls change the sheet
sheetAfterCall(n) == IF n < Len(calls) THEN calls[n + 1].before ELSE sheet

\* the write requests among the requests of a call
writeRequests(requests) == {k \in 1..Len(requests) : requests[k] \in {"POST", "PUT"}}

\* C12: when the lookup finds a row, the call writes at that row's index a
\* six-column row: its history is the stored history, a newline and the new
\* lines joined by newlines when the stored history is non-empty, and the
\* joined new lines alone when the stored history is empty or its column is
\* missing; timestamp, summary and userId are the ones supplied to the call.
C12_UpdateAppendsToHistory ==
    \A n \in 1..Len(calls) :
        calls[n].outcome = "updated"
        => LET before == calls[n].before
               after == sheetAfterCall(n)
               i == calls[n].rowIndex
               stored == cell(rowAsRead(before[i]), 5)
               joined == joinLines(calls[n].lines)
           IN  /\ i \in identityRows(before, calls[n].email, calls[n].contact)
               /\ calls[n].requests = <<"GET", "PUT">>
               /\ Len(after) = Len(before)
               /\ \A j \in 1..Len(before) : j # i => after[j] = before[j]
               /\ Len(after[i]) = 6
               /\ after[i][1] = calls[n].meta[1]
               /\ after[i][4] = calls[n].meta[2]
               /\ after[i][6] = calls[n].meta[3]
               /\ after[i][5] = IF stored # "" THEN stored \o "\n" \o joined ELSE joined

C12_Witness ==
    /\ Len(calls) = 2
    /\ calls[1].before = <<HeaderRow, ShortRow>>
    /\ calls[1].outcome = "updated" /\ calls[1].lines = <<"line1">>
    /\ calls[2].before[2][5] = "line1"
    /\ calls[2].outcome = "updated" /\ calls[2].lines = <<"line2", "line3">>
    /\ sheet[2] = <<"t2", EmailA, Phone10, "s2", "line1\nline2\nline3", "u1">>

\* C13: when the lookup finds no row, the call appends exactly one row
\* [timestamp, email, contact, summary, new lines joined by newlines, userId]
\* and issues no updateRow.
C13_CreateAppendsOneRow ==
    \A n \in 1..Len(calls) :
        calls[n].outcome = "created"
        => LET before == calls[n].before
               after == sheetAfterCall(n)
           IN  /\ ~calls[n].readOk
                  \/ identityRows(before, calls[n].email, calls[n].contact) = {}
               /\ calls[n].requests = <<"GET", "POST">>
               /\ after = Append(before,
                              <<calls[n].meta[1], calls[n].email, calls[n].contact,
                                calls[n].meta[2], joinLines(calls[n].lines),
                                calls[n].meta[3]>>)

C13_Witness ==
    /\ Len(calls) = 1
    /\ calls[1].before = <<HeaderRow>>
    /\ calls[1].outcome = "created" /\ calls[1].readOk
    /\ sheet = <<HeaderRow, <<"t1", EmailA, Phone10, "s1", "line2\nline3", "u1">>>>

\* C14: when the range read of the lookup fails, the call does not take the
\* failure for "no row": it issues no appendRow, so the identity that has a
\* row does not get a second one.
C14_FailedReadAppendsNothing ==
    \A n \in 1..Len(calls) :
        ~calls[n].readOk
        => /\ \A k \in 1..Len(calls[n].requests) : calls[n].requests[k] # "POST"
           /\ identityRows(calls[n].before, calls[n].email, calls[n].contact) # {}
              => identityRows(sheetAfterCall(n), calls[n].email, calls[n].contact)
                     = identityRows(calls[n].before, calls[n].email, calls[n].contact)

\* C15: when the appendRow or updateRow request of a call is answered non-2xx,
\* the call fails with that error, makes no second write attempt, and the
\* rows of the sheet are as before the call.
C15_FailedWriteLeavesSheet ==
    \A n \in 1..Len(calls) :
        (~calls[n].writeOk /\ writeRequests(calls[n].requests) # {})
        => /\ calls[n].outcome = "failed"
           /\ Cardinality(writeRequests(calls[n].requests)) = 1
           /\ sheetAfterCall(n) = calls[n].before

C15_Witness ==
    /\ Len(calls) = 2
    /\ calls[1].before = <<HeaderRow>>
    /\ ~calls[1].writeOk /\ calls[1].requests = <<"GET", "POST">>
    /\ calls[1].outcome = "failed"
    /\ calls[2].before = <<HeaderRow>>
    /\ calls[2].outcome = "created"
    /\ Len(sheet) = 2

\* C16: the reconciler does not reject an empty contact key: a call with an
\* empty contact and new lines goes on to the lookup and to the write instead
\* of failing.
C16_EmptyContactNotRejected ==
    \A n \in 1..Len(calls) :
        (calls[n].contact = <<>> /\ calls[n].email # <<>> /\ calls[n].lines # <<>>)
        => /\ calls[n].outcome # "rejected"
           /\ calls[n].requests # <<>> /\ calls[n].requests[1] = "GET"
           /\ writeRequests(calls[n].requests) # {}

\* C26: each call that writes performs exactly one range read followed by
\* exactly one write, with no other store request between them, and writes at
\* the row index its own lookup returned: no row index is kept from one call
\* to the next.
C26_OneReadThenOneWrite ==
    \A n \in 1..Len(calls) :
        writeRequests(calls[n].requests) # {}
        => LET rows == identityRows(calls[n].before, calls[n].email, calls[n].contact)
           IN  /\ calls[n].requests \in {<<"GET", "PUT">>, <<"GET", "POST">>}
               /\ calls[n].requests[2] = "PUT"
                  => /\ calls[n].readOk
                     /\ calls[n].rowIndex \in rows
                     /\ \A i \in rows : calls[n].rowIndex <= i
               /\ calls[n].requests[2] = "POST"
                  => ~calls[n].readOk \/ rows = {}

C26_Witness ==
    /\ Len(calls) = 2
    /\ calls[1].before = <<HeaderRow, OldRow>>
    /\ calls[1].contact = Phone10 /\ calls[1].requests = <<"GET", "PUT">>
    /\ calls[1].rowIndex = 2
    /\ calls[2].contact = Phone7Dashed /\ calls[2].readOk
    /\ calls[2].requests = <<"GET", "POST">> /\ calls[2].outcome = "created"
    /\ Len(sheet) = 3

\* C27: a reconcile call changes at most one row: the update path leaves the
\* number of rows and every other row unchanged, the create path appends one
\* row and leaves the existing rows unchanged, and no call removes a row.
C27_AtMostOneRowChanges ==
    \A n \in 1..Len(calls) :
        LET before == calls[n].before
            after == sheetAfterCall(n)
        IN  /\ Len(after) >= Len(before)
            /\ calls[n].outcome = "updated"
               => /\ Len(after) = Len(before)
                  /\ \A i \in 1..Len(before) :
                        i # calls[n].rowIndex => after[i] = before[i]
            /\ calls[n].outcome = "created"
               => /\ Len(after) = Len(before) + 1
                  /\ SubSeq(after, 1, Len(before)) = before
            /\ calls[n].outcome \notin {"updated", "created"} => after = before

C27_Witness ==
    /\ Len(calls) = 2
    /\ calls[1].before = <<HeaderRow, OldRow>> /\ calls[1].outcome = "created"
    /\ calls[2].outcome = "updated" /\ calls[2].rowIndex = 2
    /\ Len(sheet) = 3
    /\ sheet[2] # OldRow
    /\ sheet[3] = calls[2].before[3]

\* C11: in each variant of the reconciler, a call with no new lines issues no
\* appendRow and no updateRow and leaves the sheet as it was, whether or not
\* the identity has a row.
C11_NoLinesNoWrite ==
    \A n \in 1..Len(calls) :
        calls[n].lines = <<>>
        => /\ writeRequests(calls[n].requests) = {}
           /\ sheetAfterCall(n) = calls[n].before

DigitSeq == <<"0", "1", "2", "3", "4", "5", "6", "7", "8", "9">>

\* the four decimal digits of n
fourDigits(n) ==
    <<DigitSeq[((n \div 1000) % 10) + 1], DigitSeq[((n \div 100) % 10) + 1],
      DigitSeq[((n \div 10) % 10) + 1], DigitSeq[(n % 10) + 1]>>

\* the row an earlier reconcile call for the identity (b@x, nnnn) created
fillerRow(n) == <<"t0", EmailB, fourDigits(n), "s0", "old", "u1">>

FullSheet == [i \in 1..LastScannedRow |-> IF i = 1 THEN HeaderRow ELSE fillerRow(i)]

BigArgs ==
    {<<e, c, l>> : e \in {EmailA, EmailARaw}, c \in {Phone10, PhoneIntl, Phone7Dashed},
                   l \in {<<"line1">>, <<"line2">>}}

BigInit ==
    /\ NormIdle /\ FindIdle /\ RaceIdle /\ SessIdle /\ TokIdle
    /\ sheet = FullSheet
    /\ calls = <<>>

BigNext == \E args \in BigArgs : ReconcileCall(args, <<TRUE, TRUE>>)

SpecBig == BigInit /\ [][BigNext]_vars

\* the sheet before the first call
initialSheet == IF calls = <<>> THEN sheet ELSE calls[1].before

hasHeader(sh) == sh # <<>> /\ sh[1] = HeaderRow

\* no two data rows of sh hold the same (normalized email, normalized contact)
oneRowPerIdentity(sh) ==
    LET key(i) == <<normalizeEmail(cell(sh[i], 2)), normalizeContactNumber(cell(sh[i], 3))>>
    IN  Cardinality({key(i) : i \in 2..Len(sh)}) = Len(sh) - 1

\* C2: starting from a sheet with a header row and one row per identity, after
\* any sequence of reconcile calls made one at a time with every store read
\* succeeding, no two data rows hold the same (normalized email, normalized
\* contact) pair.
C2_OneRowPerIdentity ==
    (/\ hasHeader(initialSheet)
     /\ oneRowPerIdentity(initialSheet)
     /\ \A n \in 1..Len(calls) : calls[n].readOk)
    => oneRowPerIdentity(sheet)

\* C28: a row matching the query is found wherever it lies among the sheet's
\* data rows: a call whose identity has a row anywhere below the header, and
\* whose range read succeeds, updates that row instead of creating one.
C28_FoundWhereverItLies ==
    \A n \in 1..Len(calls) :
        (/\ calls[n].readOk /\ calls[n].writeOk
         /\ calls[n].lines # <<>>
         /\ identityRows(calls[n].before, calls[n].email, calls[n].contact) # {})
        => /\ calls[n].outcome = "updated"
           /\ calls[n].rowIndex
                \in identityRows(calls[n].before, calls[n].email, calls[n].contact)

(***************************************************************************)
(* Overlapping reconcile calls: two callers, each call a lookup (the       *)
(* awaited range read) and then a write (the awaited PUT or POST); the     *)
(* other caller may take its steps between the two                         *)
(***************************************************************************)
\* the arguments of the calls of caller p: (email, contact, new lines)
RaceArgs(p) ==
    {<<EmailA, c, <<"line" \o ToString(p)>>>> : c \in {Phone10, PhoneIntl, Phone7Dashed}}
    \cup {<<EmailA, Phone10, <<>>>>, <<EmailA, <<>>, <<"line1">>>>}

RaceInit ==
    /\ NormIdle /\ FindIdle /\ NoCalls /\ SessIdle /\ TokIdle
    /\ sheet \in {<<HeaderRow>>, <<HeaderRow, OldRow>>}
    /\ RaceIdle

\* appendChatLinesToRow up to the return of its lookup (the range read succeeds)
RaceLookup(p, args) ==
    /\ rPc[p] = "idle"
    /\ Len(events) < MaxEvents
    /\ LET meta == metaOf(Len(events) + 1)
           ev == [caller |-> p, email |-> args[1], contact |-> args[2],
                  lines |-> args[3], rowIndex |-> 0, before |-> sheet]
       IN  IF args[1] = <<>> \/ args[2] = <<>>
           THEN /\ events' = Append(events, ev @@ [step |-> "rejected", found |-> FALSE])
                /\ UNCHANGED <<rPc, rArgs, rFound>>
           ELSE IF args[3] = <<>>
           THEN /\ events' = Append(events, ev @@ [step |-> "noop", found |-> FALSE])
                /\ UNCHANGED <<rPc, rArgs, rFound>>
           ELSE LET found == findRowByEmailAndContact(sheet, args[1], args[2], TRUE)
                IN  /\ rFound' = [rFound EXCEPT ![p] = found]
                    /\ rArgs' = [rArgs EXCEPT ![p] =
                                    [email |-> args[1], contact |-> args[2],
                                     lines |-> args[3], meta |-> meta]]
                    /\ rPc' = [rPc EXCEPT ![p] = "looked"]
                    /\ events' = Append(events,
                                    ev @@ [step |-> "lookup", found |-> found.found])
    /\ UNCHANGED <<normVars, findVars, calls, sheet, sessVars, tokVars>>

\* appendChatLinesToRow from the return of its lookup to its end
RaceWrite(p, writeOk) ==
    /\ rPc[p] = "looked"
    /\ LET a == rArgs[p]
           ev == [caller |-> p, email |-> a.email, contact |-> a.contact,
                  lines |-> a.lines, rowIndex |-> rFound[p].rowIndex,
                  before |-> sheet, found |-> rFound[p].found]
       IN  /\ IF ~writeOk
              THEN /\ sheet' = sheet
                   /\ events' = Append(events, ev @@ [step |-> "failed"])
              ELSE IF rFound[p].found
              THEN /\ sheet' = updateRow(sheet, rFound[p].rowIndex,
                                   updatedRowOf(rFound[p], a.email, a.contact,
                                                a.lines, a.meta))
                   /\ events' = Append(events, ev @@ [step |-> "updated"])
              ELSE /\ sheet' = appendRow(sheet, newRowOf(a.email, a.contact,
                                                         a.lines, a.meta))
                   /\ events' = Append(events, ev @@ [step |-> "created"])
    /\ rPc' = [rPc EXCEPT ![p] = "idle"]
    /\ rArgs' = [rArgs EXCEPT ![p] = NoArgs]
    /\ rFound' = [rFound EXCEPT ![p] = NotFound]
    /\ UNCHANGED <<normVars, findVars, calls, sessVars, tokVars>>

RaceNext ==
    \/ \E p \in Callers : \E args \in RaceArgs(p) : RaceLookup(p, args)
    \/ \E p \in Callers, writeOk \in BOOLEAN : RaceWrite(p, writeOk)

SpecRace == RaceInit /\ [][RaceNext]_vars

\* two calls for one identity that has no row, both lookups before either write,
\* both writes answered with success
bothLookedBeforeWriting ==
    /\ Len(events) = 4
    /\ events[1].step = "lookup" /\ events[2].step = "lookup"
    /\ events[1].caller # events[2].caller
    /\ normalizeEmail(events[1].email) = normalizeEmail(events[2].email)
    /\ normalizeContactNumber(events[1].contact) = normalizeContactNumber(events[2].contact)
    /\ identityRows(events[1].before, events[1].email, events[1].contact) = {}
    /\ events[3].step \in {"created", "updated"}
    /\ events[4].step \in {"created", "updated"}
    /\ events[3].caller # events[4].caller

\* C3: when two reconcile calls for the same key, which has no row yet, both
\* complete their lookup before either writes, both take the not-found branch
\* and append, and the sheet ends with two data rows for the one identity.
C3_RaceAppendsTwice ==
    bothLookedBeforeWriting =>
        /\ ~events[1].found /\ ~events[2].found
        /\ events[3].step = "created" /\ events[4].step = "created"
        /\ Len(sheet) = Len(events[1].before) + 2
        /\ identityRows(sheet, events[1].email, events[1].contact)
               = {Len(sheet) - 1, Len(sheet)}

C3_Witness ==
    /\ bothLookedBeforeWriting
    /\ events[1].before = <<HeaderRow>>
    /\ events[1].contact = PhoneIntl /\ events[2].contact = Phone10
    /\ Len(sheet) = 3
    /\ sheet[2][3] \in {PhoneIntl, Phone10} /\ sheet[3][3] \in {PhoneIntl, Phone10}

(***************************************************************************)
(* Sessions starting at the same time: each caller runs ensureHeaders (the *)
(* awaited read of Sheet1!A1:F1, then the awaited appendRow of the header  *)
(* row) before its reconcile calls; the other caller may take its steps    *)
(* between the two                                                         *)
(***************************************************************************)
HeadersInit ==
    /\ NormIdle /\ FindIdle /\ NoCalls /\ SessIdle /\ TokIdle
    /\ sheet \in {<<>>, <<HeaderRow>>}
    /\ rPc = [p \in Callers |-> "new"]
    /\ rArgs = [p \in Callers |-> NoArgs]
    /\ rFound = [p \in Callers |-> NotFound]
    /\ events = <<>>

headerEvent(p, step, found) ==
    [caller |-> p, email |-> <<>>, contact |-> <<>>, lines |-> <<>>, rowIndex |-> 0,
     before |-> sheet, found |-> found, step |-> step]

\* ensureHeaders up to the return of its read; a read answered with an error
\* ends ensureHeaders
HeadersRead(p, responseOk) ==
    /\ rPc[p] = "new"
    /\ Len(events) < MaxEvents
    /\ LET values == getValues(sheet, 1, 1)
       IN  /\ rPc' = [rPc EXCEPT ![p] = IF responseOk /\ values = <<>>
                                         THEN "noHeader" ELSE "idle"]
           /\ events' = Append(events, headerEvent(p, "headersRead", values # <<>>))
    /\ UNCHANGED <<normVars, findVars, calls, sheet, rArgs, rFound, sessVars, tokVars>>

\* ensureHeaders from the return of its read to its end: the appendRow of the
\* header row; initializeGoogleSheets catches the error of a failed append
HeadersAppend(p, writeOk) ==
    /\ rPc[p] = "noHeader"
    /\ sheet' = IF writeOk THEN appendRow(sheet, HeaderRow) ELSE sheet
    /\ events' = Append(events,
                    headerEvent(p, IF writeOk THEN "headersAppended" ELSE "failed", FALSE))
    /\ rPc' = [rPc EXCEPT ![p] = "idle"]
    /\ UNCHANGED <<normVars, findVars, calls, rArgs, rFound, sessVars, tokVars>>

HeadersNext ==
    \/ \E p \in Callers, responseOk \in BOOLEAN : HeadersRead(p, responseOk)
    \/ \E p \in Callers, writeOk \in BOOLEAN : HeadersAppend(p, writeOk)
    \/ \E p \in Callers : \E args \in RaceArgs(p) : RaceLookup(p, args)
    \/ \E p \in Callers, writeOk \in BOOLEAN : RaceWrite(p, writeOk)

SpecHeaders == HeadersInit /\ [][HeadersNext]_vars

headerRows(sh) == {i \in 1..Len(sh) : sh[i] = HeaderRow}

\* C24: the header row is written at most once and is in row 1 before any data
\* row is written, also when two sessions run ensureHeaders at the same time
\* on an empty sheet: the sheet never holds two header rows, and no header row
\* lies below row 1.
C24_OneHeaderRowOnTop ==
    /\ Cardinality(headerRows(sheet)) <= 1
    /\ headerRows(sheet) \subseteq {1}
    /\ sheet # <<>> => sheet[1] = HeaderRow

\* the sheet after the n-th step: only the steps change the sheet
sheetAfterEvent(n) == IF n < Len(events) THEN events[n + 1].before ELSE sheet

\* C21: history is append-only under every interleaving: each update that
\* succeeds leaves the history the row held just before the write as the
\* beginning of the new history, the new lines following it, so the lines one
\* call wrote are not removed by another call on the same key, also when the
\* two calls overlap.
C21_HistoryAppendOnly ==
    \A n \in 1..Len(events) :
        events[n].step = "updated"
        => LET i == events[n].rowIndex
               stored == cell(rowAsRead(events[n].before[i]), 5)
               joined == joinLines(events[n].lines)
           IN  sheetAfterEvent(n)[i][5] =
                   IF stored # "" THEN stored \o "\n" \o joined ELSE joined

(***************************************************************************)
(* The session tracker: init(), addMessage, the setContactNumber and       *)
(* saveConversation tools and saveConversationToSheet, for the agent that  *)
(* keeps its session in its own fields ("memory") and for the agent that   *)
(* keeps it in its storage ("durable").  Handler calls run one at a time.  *)
(***************************************************************************)
Trackers == {"memory", "durable"}

Chars_NotProvided == <<"N", "o", "t", " ", "p", "r", "o", "v", "i", "d", "e", "d">>

WelcomeMessage == "Welcome! Please provide your contact number to get started."

\* a text held as characters, as the string a template literal makes of it
RECURSIVE text(_)
text(chars) == IF chars = <<>> THEN "" ELSE Head(chars) \o text(Tail(chars))

\* new Date().toISOString() during the n-th handler call
isoTime(n) == "t" \o ToString(n)

\* role.toUpperCase()
roleToUpperCase(role) == IF role = "user" THEN "USER" ELSE "ASSISTANT"

\* `[${msg.timestamp}] ${msg.role.toUpperCase()}: ${msg.content}`
formatLine(msg) ==
    "[" \o msg.timestamp \o "] " \o roleToUpperCase(msg.role) \o ": " \o msg.content

formatLines(messages) == [k \in 1..Len(messages) |-> formatLine(messages[k])]

\* `Session: ${conversation.length} messages total, Latest: ${newMessages.length} new messages`
summaryOf(total, latest) ==
    "Session: " \o ToString(total) \o " messages total, Latest: "
        \o ToString(latest) \o " new messages"

\* `Contact number ${contactNumber} saved successfully.`
contactSavedMessage(contactNumber) ==
    "Contact number " \o text(contactNumber) \o " saved successfully."

addMessage(conv, role, content, now) ==
    Append(conv, [role |-> role, content |-> content, timestamp |-> now])

\* faulty variant: every flush sends the whole conversation
newMessagesOf_all(conv, lastSaved) == conv

\* faulty variant: the first unsaved message is left out
newMessagesOf_skipsOne(conv, lastSaved) == SubSeq(conv, lastSaved + 2, Len(conv))

\* conversation.slice(lastSavedMessageIndex)
newMessagesOf(conv, lastSaved) == SubSeq(conv, lastSaved + 1, Len(conv))

\* the email and the contact number saveConversationToSheet hands to the
\* reconciler; a contact of <<>> is the durable agent's null
flushEmail(kind, email) ==
    IF kind = "durable" THEN MyMCP_normalizeEmail(email) ELSE email

flushContact(kind, contactNumber) ==
    IF kind = "durable"
    THEN IF contactNumber # <<>> THEN MyMCP_normalizeContactNumber(contactNumber) ELSE <<>>
    ELSE IF contactNumber # <<>> THEN contactNumber ELSE Chars_NotProvided

\* the number of writes among the requests of a call
storeWrites(requests) ==
    Cardinality({k \in 1..Len(requests) : requests[k] \in {"POST", "PUT"}})

NoFlush == [result |-> "none", outcome |-> "none", requests |-> <<>>, rowIndex |-> 0,
            lines |-> <<>>, from |-> 0, lastSavedMessageIndex |-> 0, turns |-> 0]

\* faulty variant: lastSavedMessageIndex is advanced whether or not the
\* reconciler threw
saveConversationToSheet_ignoresError(kind, email, conv, contactNumber, lastSaved, sh, now, readOk, writeOk) ==
    LET newMessages == newMessagesOf(conv, lastSaved)
        r == appendChatLinesToRow(sh, flushEmail(kind, email),
                 flushContact(kind, contactNumber), formatLines(newMessages),
                 <<now, summaryOf(Len(conv), Len(newMessages)), "u1">>,
                 readOk, writeOk)
    IN  [sheet |-> r.sheet, lastSavedMessageIndex |-> Len(conv),
         result |-> IF r.outcome \in {"rejected", "failed"} THEN "error" ELSE "saved",
         outcome |-> r.outcome, requests |-> r.requests, rowIndex |-> r.rowIndex,
         lines |-> formatLines(newMessages), from |-> lastSaved, turns |-> Len(conv)]

\* saveConversationToSheet after the reconciler returned or threw (r): the
\* catch leaves the sheet and lastSavedMessageIndex as they were
flushed(r, lines, conv, lastSaved, sh) ==
    IF r.outcome \in {"rejected", "failed"}
    THEN [sheet |-> sh, lastSavedMessageIndex |-> lastSaved, result |-> "error",
          outcome |-> r.outcome, requests |-> r.requests, rowIndex |-> r.rowIndex,
          lines |-> lines, from |-> lastSaved, turns |-> Len(conv)]
    ELSE [sheet |-> r.sheet, lastSavedMessageIndex |-> Len(conv), result |-> "saved",
          outcome |-> r.outcome, requests |-> r.requests, rowIndex |-> r.rowIndex,
          lines |-> lines, from |-> lastSaved, turns |-> Len(conv)]

\* saveConversationToSheet run from start to end: the sheet and the
\* lastSavedMessageIndex it leaves, and what it did.  result, the text it
\* returns: "nothing new", "no contact", "saved", or "error" (the reconciler
\* threw and the catch returned the error as text).  lines: the chat lines it
\* handed to the reconciler; from, turns: the lastSavedMessageIndex and the
\* length of the conversation it started with.
saveConversationToSheet(kind, email, conv, contactNumber, lastSaved, sh, now, readOk, writeOk) ==
    LET newMessages == newMessagesOf(conv, lastSaved)
        done(result) == [sheet |-> sh, lastSavedMessageIndex |-> lastSaved,
                         result |-> result, outcome |-> "none",
                         requests |-> <<>>, rowIndex |-> 0, lines |-> <<>>,
                         from |-> lastSaved, turns |-> Len(conv)]
    IN  IF newMessages = <<>> THEN done("nothing new")
        ELSE IF kind = "durable" /\ flushContact(kind, contactNumber) = <<>>
        THEN done("no contact")
        ELSE flushed(appendChatLinesToRow(sh, flushEmail(kind, email),
                         flushContact(kind, contactNumber), formatLines(newMessages),
                         <<now, summaryOf(Len(conv), Len(newMessages)), "u1">>,
                         readOk, writeOk),
                     formatLines(newMessages), conv, lastSaved, sh)

\* ensureHeaders inside initializeGoogleSheets, which swallows a thrown error
ensureHeaders(sh, readOk, writeOk) ==
    IF readOk /\ getValues(sh, 1, 1) = <<>> /\ writeOk
    THEN appendRow(sh, HeaderRow)
    ELSE sh

\* the record of a handler call: the handler, its argument, the request
\* outcomes it met, what its flush did, and the sheet before it
opRecord(op, arg, role, ok, f, before) ==
    [op |-> op, arg |-> arg, role |-> role, readOk |-> ok[1], writeOk |-> ok[2],
     result |-> f.result, outcome |-> f.outcome, writes |-> storeWrites(f.requests),
     requests |-> f.requests, rowIndex |-> f.rowIndex, lines |-> f.lines,
     from |-> f.from, saved |-> f.lastSavedMessageIndex, turns |-> f.turns,
     before |-> before]

\* the row a session before this one left for the identity (a@x, 5551234567)
SessionSheets == {<<>>, <<HeaderRow, fillerRow(2)>>, <<HeaderRow, OldRow>>}

SessionContacts == {PhoneDashed}

SessionTurns == {<<"user", "hi">>, <<"assistant", "hello">>}

\* the request outcomes a handler call may meet: a session run has at most one
\* handler call that meets a failed request
sessionOutcomes ==
    IF \A n \in 1..Len(ops) : ops[n].readOk /\ ops[n].writeOk
    THEN RequestOutcomes
    ELSE {<<TRUE, TRUE>>}

SessInit ==
    /\ NormIdle /\ FindIdle /\ NoCalls /\ RaceIdle /\ TokIdle
    /\ sheet \in SessionSheets
    /\ tracker \in Trackers
    /\ userEmail = EmailARaw
    /\ conversation = <<>>
    /\ userContactNumber = <<>>
    /\ lastSavedMessageIndex = 0
    /\ sPc = "new"
    /\ ops = <<>>

\* init(): the welcome message, then initializeGoogleSheets
InitSession(ok) ==
    /\ sPc = "new"
    /\ Len(ops) < MaxOps
    /\ LET now == isoTime(Len(ops) + 1)
           after == ensureHeaders(sheet, ok[1], ok[2])
       IN  /\ conversation' =
                 IF tracker = "memory" \/ conversation = <<>>
                 THEN addMessage(conversation, "assistant", WelcomeMessage, now)
                 ELSE conversation
           /\ sheet' = after
           /\ ops' = Append(ops, opRecord("init", <<>>, "", ok, NoFlush, sheet))
    /\ sPc' = "ready"
    /\ UNCHANGED <<normVars, findVars, calls, raceVars, tokVars, tracker, userEmail,
                   userContactNumber, lastSavedMessageIndex>>

\* addMessage(role, content)
AddMessage(turn) ==
    /\ sPc = "ready"
    /\ Len(ops) < MaxOps
    /\ conversation' = addMessage(conversation, turn[1], turn[2], isoTime(Len(ops) + 1))
    /\ ops' = Append(ops, opRecord("addMessage", <<>>, turn[1], <<TRUE, TRUE>>,
                                   NoFlush, sheet))
    /\ UNCHANGED <<normVars, findVars, calls, raceVars, tokVars, sheet, tracker, userEmail,
                   userContactNumber, lastSavedMessageIndex, sPc>>

\* the setContactNumber tool
SetContactNumber(contactNumber, ok) ==
    /\ sPc = "ready"
    /\ Len(ops) < MaxOps
    /\ LET now == isoTime(Len(ops) + 1)
           stored == IF tracker = "durable"
                     THEN MyMCP_normalizeContactNumber(contactNumber)
                     ELSE contactNumber
           conv == addMessage(conversation, "assistant", contactSavedMessage(stored), now)
           f == saveConversationToSheet(tracker, userEmail, conv, stored,
                    lastSavedMessageIndex, sheet, now, ok[1], ok[2])
       IN  /\ userContactNumber' = stored
           /\ conversation' = conv
           /\ lastSavedMessageIndex' = f.lastSavedMessageIndex
           /\ sheet' = f.sheet
           /\ ops' = Append(ops, opRecord("setContactNumber", contactNumber, "assistant",
                                          ok, f, sheet))
    /\ UNCHANGED <<normVars, findVars, calls, raceVars, tokVars, tracker, userEmail, sPc>>

\* the saveConversation tool
SaveConversation(ok) ==
    /\ sPc = "ready"
    /\ Len(ops) < MaxOps
    /\ LET f == saveConversationToSheet(tracker, userEmail, conversation,
                    userContactNumber, lastSavedMessageIndex, sheet,
                    isoTime(Len(ops) + 1), ok[1], ok[2])
       IN  /\ lastSavedMessageIndex' = f.lastSavedMessageIndex
           /\ sheet' = f.sheet
           /\ ops' = Append(ops, opRecord("saveConversation", <<>>, "", ok, f,
                                          sheet))
    /\ UNCHANGED <<normVars, findVars, calls, raceVars, tokVars, tracker, userEmail,
                   conversation, userContactNumber, sPc>>

SessNext ==
    \/ \E ok \in sessionOutcomes : InitSession(ok)
    \/ \E turn \in SessionTurns : AddMessage(turn)
    \/ \E c \in SessionContacts, ok \in sessionOutcomes : SetContactNumber(c, ok)
    \/ \E ok \in sessionOutcomes : SaveConversation(ok)

SpecSession == SessInit /\ [][SessNext]_vars

\* the sheet after the n-th handler call: only handler calls change the sheet
sheetAfter(n) == IF n < Len(ops) THEN ops[n + 1].before ELSE sheet

\* C1: when a flush saves and the next handler call is a flush again, with no
\* turn recorded in between, the first flush issued exactly one store write
\* and the second issued none and left the sheet, and with it the identity
\* row's history, as the first flush left it.
C1_SecondFlushWritesNothing ==
    \A n \in 1..(Len(ops) - 1) :
        (ops[n].result = "saved" /\ ops[n + 1].op = "saveConversation")
        => /\ ops[n].writes = 1
           /\ ops[n].outcome \in {"created", "updated"}
           /\ ops[n + 1].result = "nothing new"
           /\ ops[n + 1].writes = 0
           /\ sheetAfter(n + 1) = sheetAfter(n)

C1_Witness ==
    \E n \in 1..(Len(ops) - 1) :
        /\ ops[n].op = "saveConversation" /\ ops[n].result = "saved"
        /\ ops[n].outcome = "updated" /\ ops[n].writes = 1
        /\ ops[n + 1].op = "saveConversation" /\ ops[n + 1].result = "nothing new"
        /\ sheetAfter(n + 1) = sheetAfter(n)

\* C17: a flush that saves hands to the reconciler exactly the turns from
\* position lastSavedMessageIndex to the end of the conversation, in recording
\* order, each as one "[timestamp] ROLE: content" line, and then sets
\* lastSavedMessageIndex to the number of turns of the conversation.
C17_FlushSendsUnsavedTurns ==
    \A n \in 1..Len(ops) :
        ops[n].result = "saved"
        => LET line(msg) == "[" \o msg.timestamp \o "] "
                                \o (IF msg.role = "user" THEN "USER" ELSE "ASSISTANT")
                                \o ": " \o msg.content
               unsaved == SubSeq(conversation, ops[n].from + 1, ops[n].turns)
           IN  /\ ops[n].from < ops[n].turns /\ ops[n].turns <= Len(conversation)
               /\ ops[n].lines = [k \in 1..Len(unsaved) |-> line(unsaved[k])]
               /\ ops[n].saved = ops[n].turns
               /\ (n < Len(ops) /\ ops[n + 1].op = "saveConversation")
                      => ops[n + 1].from = ops[n].turns

C17_Witness ==
    /\ Len(ops) = 5
    /\ ops[2].op = "setContactNumber" /\ ops[2].result = "saved" /\ ops[2].saved = 2
    /\ ops[5].op = "saveConversation" /\ ops[5].result = "saved"
    /\ ops[5].from = 2 /\ ops[5].saved = 4
    /\ ops[5].lines = <<"[t3] USER: hi", "[t4] ASSISTANT: hello">>
    /\ lastSavedMessageIndex = 4

\* the handler calls that flush
isFlush(n) == ops[n].op \in {"setContactNumber", "saveConversation"}

\* m is the first flush after the n-th handler call
nextFlush(n, m) ==
    /\ n < m /\ m <= Len(ops) /\ isFlush(m)
    /\ \A k \in (n + 1)..(m - 1) : ~isFlush(k)

\* the history the flush of the m-th handler call found in the row it wrote
historyBefore(m) ==
    IF ops[m].outcome = "updated"
    THEN cell(rowAsRead(ops[m].before[ops[m].rowIndex]), 5)
    ELSE ""

\* C18: when a flush fails because the store write fails, the failure is
\* returned as text, lastSavedMessageIndex and the recorded turns stay as they
\* were, and the next flush sends the same unsent lines again, followed by the
\* turns recorded since; when that flush saves, the row it wrote holds them all
\* after what it held before.
C18_FailedFlushIsRetried ==
    \A n \in 1..Len(ops) :
        (isFlush(n) /\ ops[n].outcome = "failed")
        => /\ ops[n].result = "error"
           /\ ops[n].saved = ops[n].from
           /\ sheetAfter(n) = ops[n].before
           /\ ops[n].turns <= Len(conversation)
           /\ ops[n].lines = formatLines(SubSeq(conversation, ops[n].from + 1, ops[n].turns))
           /\ \A m \in 1..Len(ops) :
                nextFlush(n, m)
                => /\ ops[m].from = ops[n].from
                   /\ ops[m].result \in {"saved", "error"}
                   /\ ops[m].lines =
                          formatLines(SubSeq(conversation, ops[n].from + 1, ops[m].turns))
                   /\ SubSeq(ops[m].lines, 1, Len(ops[n].lines)) = ops[n].lines
                   /\ ops[m].result = "saved"
                      => /\ ops[m].saved = ops[m].turns
                         /\ sheetAfter(m)[ops[m].rowIndex][5] =
                                IF historyBefore(m) # ""
                                THEN historyBefore(m) \o "\n" \o joinLines(ops[m].lines)
                                ELSE joinLines(ops[m].lines)

C18_Witness ==
    /\ Len(ops) = 4
    /\ ops[1].before = <<>>
    /\ ops[2].op = "setContactNumber" /\ ops[2].outcome = "failed"
    /\ ops[2].result = "error"
    /\ ops[3].op = "addMessage"
    /\ ops[4].op = "saveConversation" /\ ops[4].result = "saved"
    /\ ops[4].from = 0 /\ Len(ops[4].lines) = 3
    /\ lastSavedMessageIndex = 3
    /\ Len(sheet) = 2

\* no contact number has been set before the n-th handler call
noContactBefore(n) == \A k \in 1..(n - 1) : ops[k].op # "setContactNumber"

\* C19: while no contact number has been set for the session, a flush issues
\* no store read or write and leaves lastSavedMessageIndex unchanged, so the
\* first flush after the contact is set sends every turn recorded until then.
C19_NoFlushWithoutContact ==
    \A n \in 1..Len(ops) :
        /\ (ops[n].op = "saveConversation" /\ noContactBefore(n))
           => /\ ops[n].requests = <<>>
              /\ ops[n].saved = ops[n].from
              /\ sheetAfter(n) = ops[n].before
        /\ (ops[n].op = "setContactNumber" /\ noContactBefore(n))
           => /\ ops[n].from = 0
              /\ ops[n].lines = formatLines(SubSeq(conversation, 1, ops[n].turns))

\* C20: every data row a flush writes holds the trimmed, lowercased email in
\* its email column and a normalized phone key in its contact column: a
\* digits-only text that is its own normalization.
C20_FlushedRowHoldsNormalizedKey ==
    \A n \in 1..Len(ops) :
        ops[n].result = "saved"
        => LET row == sheetAfter(n)[ops[n].rowIndex]
           IN  /\ row[2] = toLowerCase(trim(userEmail))
               /\ \A k \in 1..Len(row[3]) : IsDigit(row[3][k])
               /\ normalizeContactNumber(row[3]) = row[3]

\* the session of the scenario, on the durable agent with every request
\* succeeding and no row for its identity before it: setContactNumber
\* "555-123-4567", a user turn, a flush, an assistant turn, a flush
scenarioSession ==
    /\ tracker = "durable"
    /\ Len(ops) = 6
    /\ ops[1].op = "init"
    /\ ops[2].op = "setContactNumber" /\ ops[2].arg = PhoneDashed
    /\ ops[3].op = "addMessage" /\ ops[3].role = "user"
    /\ ops[4].op = "saveConversation"
    /\ ops[5].op = "addMessage" /\ ops[5].role = "assistant"
    /\ ops[6].op = "saveConversation"
    /\ \A n \in 1..6 : ops[n].readOk /\ ops[n].writeOk
    /\ identityRows(ops[1].before, userEmail, Phone10) = {}

\* C5: the session that sets contact "555-123-4567", records a user turn and
\* flushes, then records an assistant turn and flushes again leaves exactly
\* one data row for its identity, with contact "5551234567"; the flushes after
\* the first update the row the first one created, and the row's history is
\* the recorded turns in recording order, each once.
C5_SessionEndToEnd ==
    scenarioSession =>
        LET rows == identityRows(sheet, userEmail, Phone10)
            created == ops[2].rowIndex
        IN  /\ userContactNumber = Phone10
            /\ ops[2].result = "saved" /\ ops[2].outcome = "created"
            /\ rows = {created}
            /\ sheet[created][3] = Phone10
            /\ ops[4].result = "saved" /\ ops[4].outcome = "updated"
            /\ ops[4].rowIndex = created
            /\ ops[6].result = "saved" /\ ops[6].outcome = "updated"
            /\ ops[6].rowIndex = created
            /\ Len(sheet) = Len(sheetAfter(2))
            /\ [k \in 1..Len(conversation) |-> conversation[k].role]
                   = <<"assistant", "assistant", "user", "assistant">>
            /\ sheet[created][5] = joinLines(formatLines(conversation))

C5_Witness ==
    /\ scenarioSession
    /\ ops[1].before = <<>>
    /\ Len(sheet) = 2
    /\ sheet[2][2] = EmailA /\ sheet[2][3] = Phone10
    /\ sheet[2][5] = "[t1] ASSISTANT: " \o WelcomeMessage
           \o "\n[t2] ASSISTANT: Contact number 5551234567 saved successfully."
           \o "\n[t3] USER: hi\n[t5] ASSISTANT: hello"

\* a setContactNumber call is among the first n handler calls: the identity
\* the n-th call flushes under has the contact number
contactSetBy(n) == \E k \in 1..n : ops[k].op = "setContactNumber"

\* C31: every row created by the reconciler is found by a later lookup for
\* the same key, also a row created while the sheet had no header row: when a
\* flush whose lookup succeeded created the identity's row, a later flush for
\* that identity whose lookup succeeds updates that row instead of appending
\* another.
C31_CreatedRowFoundLater ==
    \A n \in 1..Len(ops) : \A m \in (n + 1)..Len(ops) :
        (/\ ops[n].result = "saved" /\ ops[n].outcome = "created" /\ ops[n].readOk
         /\ ops[m].result = "saved" /\ ops[m].readOk
         /\ contactSetBy(n) <=> contactSetBy(m))
        => /\ ops[m].outcome = "updated"
           /\ ops[m].rowIndex = ops[n].rowIndex

(***************************************************************************)
(* The trackers that save the whole chat history: saveChatHistoryToSheet   *)
(* and the handlers that call it, for the agent that merges the history    *)
(* into the stored cell ("merge"), the agent that writes the formatted     *)
(* history over it ("overwrite") and the agent that writes the history as  *)
(* JSON over it ("json").  The session fields are held in the session      *)
(* variables: conversation is this.chatHistory.  Handler calls run one at  *)
(* a time.                                                                 *)
(***************************************************************************)
ReplyTrackers == {"merge", "overwrite", "json"}

Reply_WelcomeMessage ==
    "Welcome to the MCP Assistant! To get started, please provide your contact number so I can assist you better."

\* `[${msg.timestamp.toISOString()}] ${msg.role}: ${msg.content}`
Merge_formatLine(msg) ==
    "[" \o msg.timestamp \o "] " \o msg.role \o ": " \o msg.content

\* JSON.stringify of one { role, content, timestamp }
jsonOf(msg) ==
    "{\"role\":\"" \o msg.role \o "\",\"content\":\"" \o msg.content
        \o "\",\"timestamp\":\"" \o msg.timestamp \o "\"}"

RECURSIVE jsonItems(_)
jsonItems(messages) ==
    IF messages = <<>> THEN ""
    ELSE IF Len(messages) = 1 THEN jsonOf(messages[1])
    ELSE jsonOf(messages[1]) \o "," \o jsonItems(Tail(messages))

\* JSON.stringify(this.chatHistory.map(...))
JSON_stringify(messages) == "[" \o jsonItems(messages) \o "]"

\* the lines of the text saveChatHistoryToSheet builds from the whole
\* chatHistory (fullChatHistory, formattedHistory, completeChatHistory)
historyLines(kind, chatHistory) ==
    IF kind = "merge"
    THEN [k \in 1..Len(chatHistory) |-> Merge_formatLine(chatHistory[k])]
    ELSE IF kind = "overwrite" THEN formatLines(chatHistory)
    ELSE <<JSON_stringify(chatHistory)>>

\* summary || `Chat session - Duration: ${durationMinutes} minutes, Messages: ${n}`
\* (a summary of "" is the argument left out; the session lasts under a minute)
sessionSummary(summary, n) ==
    IF summary # "" THEN summary
    ELSE "Chat session - Duration: 0 minutes, Messages: " \o ToString(n)

\* the lookup of the service each agent is built with
Reply_findRowByEmailAndContact(kind, sh, email, contact, responseOk) ==
    IF kind = "overwrite"
    THEN findRowByEmailAndContact(sh, email, contact, responseOk)
    ELSE Exact_findRowByEmailAndContact(sh, email, contact, responseOk)

\* faulty variant: every agent writes the built text over the stored history
historyCellOf_overwrites(kind, found, full) == full

\* the history cell of the row saveChatHistoryToSheet writes
historyCellOf(kind, found, full) ==
    LET prevHistory == cell(found.values, 5)
    IN  IF kind = "merge" /\ found.found /\ prevHistory # ""
        THEN prevHistory \o "\n" \o full
        ELSE full

\* saveChatHistoryToSheet(summary) run from start to end: ensureHeaders, the
\* lookup, and the update or the append; a thrown error is caught and
\* returned as text (result "error")
saveChatHistoryToSheet(kind, email, chatHistory, contactNumber, sh, now, summary, readOk, writeOk) ==
    LET needHeader == readOk /\ getValues(sh, 1, 1) = <<>>
        sh1 == IF needHeader THEN appendRow(sh, HeaderRow) ELSE sh
        lines == historyLines(kind, chatHistory)
        contact == IF contactNumber # <<>> THEN contactNumber ELSE Chars_NotProvided
        found == Reply_findRowByEmailAndContact(kind, sh1, email, contact, readOk)
        row == <<now, email, contact, sessionSummary(summary, Len(chatHistory)),
                 historyCellOf(kind, found, joinLines(lines)), "u1">>
        headerRequests == IF needHeader THEN <<"GET", "POST">> ELSE <<"GET">>
        write == IF found.found THEN "PUT" ELSE "POST"
        rowIndex == IF found.found THEN found.rowIndex ELSE Len(sh1) + 1
        did(sheetAfter_, result, outcome, requests, index) ==
            [sheet |-> sheetAfter_, result |-> result, outcome |-> outcome,
             requests |-> requests, rowIndex |-> index, lines |-> lines,
             from |-> 0, lastSavedMessageIndex |-> 0, turns |-> Len(chatHistory)]
    IN  IF needHeader /\ ~writeOk
        THEN did(sh, "error", "failed", headerRequests, 0)
        ELSE IF ~writeOk
        THEN did(sh1, "error", "failed", headerRequests \o <<"GET", write>>, rowIndex)
        ELSE did(IF found.found THEN updateRow(sh1, found.rowIndex, row)
                 ELSE appendRow(sh1, row),
                 "saved", IF found.found THEN "updated" ELSE "created",
                 headerRequests \o <<"GET", write>>, rowIndex)

\* `Your contact number ${contactNumber} has been saved for this session. How can I help you today?`
contactResponse(contactNumber) ==
    "Your contact number " \o text(contactNumber)
        \o " has been saved for this session. How can I help you today?"

\* the rows earlier sessions of the user left: one without and one with the
\* contact number
EarlierRow == <<"t0", EmailARaw, Chars_NotProvided, "s0", "old", "u1">>

EarlierContactRow == <<"t0", EmailARaw, PhoneDashed, "s0", "old", "u1">>

ReplySheets == {<<>>, <<HeaderRow, EarlierRow, EarlierContactRow>>}

ReplyTurns == {<<"user", "hi">>}

\* the record of a handler call that did not save
noSave(op, role, before) ==
    opRecord(op, userContactNumber, role, <<TRUE, TRUE>>, NoFlush, before)

ReplyInit ==
    /\ NormIdle /\ FindIdle /\ NoCalls /\ RaceIdle /\ TokIdle
    /\ sheet \in ReplySheets
    /\ tracker \in ReplyTrackers
    /\ userEmail = EmailARaw
    /\ conversation = <<>>
    /\ userContactNumber = <<>>
    /\ lastSavedMessageIndex = 0
    /\ sPc = "new"
    /\ ops = <<>>

\* init(): sendWelcomeMessage, and for the overwriting agent
\* saveInitialConnection (its own ensureHeaders leaves the sheet the one
\* inside saveChatHistoryToSheet leaves)
Reply_init(ok) ==
    /\ sPc = "new"
    /\ Len(ops) < MaxReplyOps
    /\ LET now == isoTime(Len(ops) + 1)
           chatHistory == addMessage(conversation, "assistant", Reply_WelcomeMessage, now)
           f == saveChatHistoryToSheet(tracker, userEmail, chatHistory, userContactNumber,
                                       sheet, now, "Session started", ok[1], ok[2])
       IN  /\ conversation' = chatHistory
           /\ IF tracker = "overwrite"
              THEN /\ sheet' = f.sheet
                   /\ ops' = Append(ops, opRecord("init", userContactNumber, "assistant",
                                                  ok, f, sheet))
              ELSE /\ sheet' = sheet
                   /\ ops' = Append(ops, noSave("init", "assistant", sheet))
    /\ sPc' = "ready"
    /\ UNCHANGED <<normVars, findVars, calls, raceVars, tokVars, tracker, userEmail,
                   userContactNumber, lastSavedMessageIndex>>

\* pushUserReply / pushAssistantReply of the merging agent (the turn, then
\* saveChatHistoryToSheet), recordConversationMessage of the overwriting agent
\* (the turn, then checkAndAutoSave; elapsed: more than two minutes have
\* passed since the last save) and recordConversationMessage of the JSON
\* agent (the turn only)
PushReply(turn, ok, elapsed) ==
    /\ sPc = "ready"
    /\ Len(ops) < MaxReplyOps
    /\ LET now == isoTime(Len(ops) + 1)
           chatHistory == addMessage(conversation, turn[1], turn[2], now)
           f == saveChatHistoryToSheet(tracker, userEmail, chatHistory, userContactNumber,
                    sheet, now, IF tracker = "overwrite" THEN "Auto-save" ELSE "",
                    ok[1], ok[2])
           saves == \/ tracker = "merge"
                    \/ tracker = "overwrite" /\ (elapsed \/ Len(chatHistory) % 5 = 0)
       IN  /\ conversation' = chatHistory
           /\ IF saves
              THEN /\ sheet' = f.sheet
                   /\ ops' = Append(ops, opRecord("pushReply", userContactNumber, turn[1],
                                                  ok, f, sheet))
              ELSE /\ sheet' = sheet
                   /\ ops' = Append(ops, noSave("pushReply", turn[1], sheet))
    /\ UNCHANGED <<normVars, findVars, calls, raceVars, tokVars, tracker, userEmail,
                   userContactNumber, lastSavedMessageIndex, sPc>>

\* the setContactNumber tool.  Merging agent: the contact, pushUserReply,
\* pushAssistantReply (two saves, one record each).  Overwriting agent: the
\* contact, the assistant's response, one save.  JSON agent: the contact and
\* recordAssistantMessage, which saves at every fifth message.
Reply_setContactNumber(contactNumber, ok) ==
    /\ sPc = "ready"
    /\ Len(ops) + (IF tracker = "merge" THEN 2 ELSE 1) <= MaxReplyOps
    /\ LET now == isoTime(Len(ops) + 1)
           now2 == isoTime(Len(ops) + 2)
           provided == addMessage(conversation, "user",
                           "Contact number provided: " \o text(contactNumber), now)
           saved == addMessage(provided, "assistant",
                           "Contact number saved for this session", now2)
           f1 == saveChatHistoryToSheet(tracker, userEmail, provided, contactNumber,
                                        sheet, now, "", ok[1], ok[2])
           f2 == saveChatHistoryToSheet(tracker, userEmail, saved, contactNumber,
                                        f1.sheet, now2, "", ok[1], ok[2])
           responded == addMessage(conversation, "assistant",
                                   contactResponse(contactNumber), now)
           f == saveChatHistoryToSheet(tracker, userEmail, responded, contactNumber, sheet,
                    now, IF tracker = "overwrite" THEN "Contact number captured" ELSE "",
                    ok[1], ok[2])
       IN  IF tracker = "merge"
           THEN /\ conversation' = saved
                /\ sheet' = f2.sheet
                /\ ops' = ops \o <<opRecord("setContactNumber", contactNumber, "user",
                                            ok, f1, sheet),
                                   opRecord("setContactNumber", contactNumber, "assistant",
                                            ok, f2, f1.sheet)>>
           ELSE /\ conversation' = responded
                /\ IF tracker = "overwrite" \/ Len(responded) % 5 = 0
                   THEN /\ sheet' = f.sheet
                        /\ ops' = Append(ops, opRecord("setContactNumber", contactNumber,
                                                       "assistant", ok, f, sheet))
                   ELSE /\ sheet' = sheet
                        /\ ops' = Append(ops, opRecord("setContactNumber", contactNumber,
                                                       "assistant", <<TRUE, TRUE>>, NoFlush,
                                                       sheet))
    /\ userContactNumber' = contactNumber
    /\ UNCHANGED <<normVars, findVars, calls, raceVars, tokVars, tracker, userEmail,
                   lastSavedMessageIndex, sPc>>

\* the saveChatHistory tool, called without a summary; the overwriting agent
\* records "Chat history saved successfully" after the save
SaveChatHistory(ok) ==
    /\ sPc = "ready"
    /\ Len(ops) < MaxReplyOps
    /\ LET now == isoTime(Len(ops) + 1)
           f == saveChatHistoryToSheet(tracker, userEmail, conversation, userContactNumber,
                                       sheet, now, "", ok[1], ok[2])
       IN  /\ sheet' = f.sheet
           /\ conversation' =
                 IF tracker = "overwrite"
                 THEN addMessage(conversation, "assistant",
                                 "Chat history saved successfully", now)
                 ELSE conversation
           /\ ops' = Append(ops, opRecord("saveChatHistory", userContactNumber, "", ok, f,
                                          sheet))
    /\ UNCHANGED <<normVars, findVars, calls, raceVars, tokVars, tracker, userEmail,
                   userContactNumber, lastSavedMessageIndex, sPc>>

\* the endSession tool, called without a reason.  Merging and JSON agents:
\* the save, then chatHistory = [] and userContactNumber = null.  Overwriting
\* agent: the closing message, then the save.
EndSession(ok) ==
    /\ sPc = "ready"
    /\ Len(ops) < MaxReplyOps
    /\ LET now == isoTime(Len(ops) + 1)
           chatHistory ==
               IF tracker = "overwrite"
               THEN addMessage(conversation, "assistant",
                               "Session ended. Thank you for using our service!", now)
               ELSE conversation
           f == saveChatHistoryToSheet(tracker, userEmail, chatHistory, userContactNumber,
                                       sheet, now, "Session ended by user", ok[1], ok[2])
       IN  /\ sheet' = f.sheet
           /\ conversation' = IF tracker = "overwrite" THEN chatHistory ELSE <<>>
           /\ userContactNumber' = IF tracker = "overwrite" THEN userContactNumber ELSE <<>>
           /\ ops' = Append(ops, opRecord("endSession", userContactNumber, "", ok, f, sheet))
    /\ UNCHANGED <<normVars, findVars, calls, raceVars, tokVars, tracker, userEmail,
                   lastSavedMessageIndex, sPc>>

ReplyNext ==
    \/ \E ok \in sessionOutcomes : Reply_init(ok)
    \/ \E turn \in ReplyTurns, ok \in sessionOutcomes, elapsed \in BOOLEAN :
          PushReply(turn, ok, elapsed)
    \/ \E c \in SessionContacts, ok \in sessionOutcomes : Reply_setContactNumber(c, ok)
    \/ \E ok \in sessionOutcomes : SaveChatHistory(ok)
    \/ \E ok \in sessionOutcomes : EndSession(ok)

SpecReply == ReplyInit /\ [][ReplyNext]_vars

\* the last endSession call before the n-th handler call (0: none)
sessionStart(n) ==
    LET ended == {m \in 1..(n - 1) : ops[m].op = "endSession"}
    IN  IF ended = {} THEN 0 ELSE CHOOSE m \in ended : \A k \in ended : k <= m

\* the number of turns of the session that its saves before the n-th handler
\* call have stored in the row of the identity the n-th call saves under
storedTurns(n) ==
    LET saves == {m \in (sessionStart(n) + 1)..(n - 1) :
                     ops[m].result = "saved" /\ ops[m].arg = ops[n].arg}
    IN  IF saves = {} THEN 0
        ELSE ops[CHOOSE m \in saves : \A k \in saves : k <= m].turns

\* C29: with the save-on-every-reply tracker a save sends only content not
\* yet stored: a save whose reads succeed leaves in the identity row's history
\* cell what the cell held, followed by the lines of the turns that no
\* earlier save of the session has stored, so that each recorded turn is in
\* the cell exactly once.
C29_EachTurnStoredOnce ==
    tracker = "merge"
    => \A n \in 1..Len(ops) :
          (ops[n].result = "saved" /\ ops[n].readOk)
          => LET i == ops[n].rowIndex
                 stored == IF ops[n].outcome = "updated"
                           THEN cell(rowAsRead(ops[n].before[i]), 5)
                           ELSE ""
                 new == SubSeq(ops[n].lines, storedTurns(n) + 1, ops[n].turns)
             IN  sheetAfter(n)[i][5] =
                     IF new = <<>> THEN stored
                     ELSE IF stored # "" THEN stored \o "\n" \o joinLines(new)
                     ELSE joinLines(new)

\* C30: when a save finds an existing row for the identity, the history
\* already stored in that row is kept and the new content is appended after
\* it: no save erases the history an earlier session stored.
C30_StoredHistoryKept ==
    \A n \in 1..Len(ops) :
        (ops[n].result = "saved" /\ ops[n].outcome = "updated")
        => LET i == ops[n].rowIndex
               stored == cell(rowAsRead(ops[n].before[i]), 5)
           IN  stored # ""
               => sheetAfter(n)[i][5] = stored \o "\n" \o joinLines(ops[n].lines)

AutoSaveEvery == 5

\* the condition of checkAndAutoSave
autoSaveDue(elapsed, chatHistory) == elapsed \/ Len(chatHistory) % AutoSaveEvery = 0

AutoSaveInit ==
    /\ NormIdle /\ FindIdle /\ NoCalls /\ RaceIdle /\ TokIdle
    /\ sheet = <<HeaderRow>>
    /\ tracker = "overwrite"
    /\ userEmail = EmailARaw
    /\ conversation = <<>>
    /\ userContactNumber = <<>>
    /\ lastSavedMessageIndex = 0
    /\ sPc = "new"
    /\ ops = <<>>

\* a recording tool that has left chatHistory: checkAndAutoSave and the
\* record of the call
recorded(op, chatHistory, elapsed, ok) ==
    /\ sPc = "ready"
    /\ Len(ops) < MaxReplyOps
    /\ conversation' = chatHistory
    /\ IF autoSaveDue(elapsed, chatHistory)
       THEN LET f == saveChatHistoryToSheet(tracker, userEmail, chatHistory,
                         userContactNumber, sheet, isoTime(Len(ops) + 1), "Auto-save",
                         ok[1], ok[2])
            IN  /\ sheet' = f.sheet
                /\ ops' = Append(ops, opRecord(op, userContactNumber, "", ok, f, sheet))
       ELSE /\ sheet' = sheet
            /\ ops' = Append(ops, noSave(op, "", sheet))
    /\ UNCHANGED <<normVars, findVars, calls, raceVars, tokVars, tracker, userEmail,
                   userContactNumber, lastSavedMessageIndex, sPc>>

\* the add tool: the user's context when given, then the response
AddTool(withContext, elapsed, ok) ==
    LET now == isoTime(Len(ops) + 1)
        context == IF withContext
                   THEN addMessage(conversation, "user", "add 1 and 2", now)
                   ELSE conversation
    IN  recorded("add", addMessage(context, "assistant", "Added 1 + 2 = 3", now),
                 elapsed, ok)

\* the captureUserMessage tool: the message, then the response when given
CaptureUserMessage(withResponse, elapsed, ok) ==
    LET now == isoTime(Len(ops) + 1)
        message == addMessage(conversation, "user", "hi", now)
    IN  recorded("captureUserMessage",
                 IF withResponse THEN addMessage(message, "assistant", "hello", now)
                 ELSE message,
                 elapsed, ok)

\* the recordConversationExchange tool: the user message and the response
RecordConversationExchange(elapsed, ok) ==
    LET now == isoTime(Len(ops) + 1)
    IN  recorded("recordConversationExchange",
                 addMessage(addMessage(conversation, "user", "hi", now),
                            "assistant", "hello", now),
                 elapsed, ok)

AutoSaveNext ==
    \/ \E ok \in sessionOutcomes : Reply_init(ok)
    \/ \E c \in BOOLEAN, elapsed \in BOOLEAN, ok \in sessionOutcomes :
          AddTool(c, elapsed, ok)
    \/ \E r \in BOOLEAN, elapsed \in BOOLEAN, ok \in sessionOutcomes :
          CaptureUserMessage(r, elapsed, ok)
    \/ \E elapsed \in BOOLEAN, ok \in sessionOutcomes :
          RecordConversationExchange(elapsed, ok)

SpecAutoSave == AutoSaveInit /\ [][AutoSaveNext]_vars

\* the number of messages of the chat history at the last call of
\* saveChatHistoryToSheet (0: it has not been called)
messagesAtLastSave ==
    LET saves == {n \in 1..Len(ops) : ops[n].result # "none"}
    IN  IF saves = {} THEN 0
        ELSE ops[CHOOSE n \in saves : \A k \in saves : k <= n].turns

\* C37: across any sequence of recording tool calls, at most 5 messages are
\* added to the chat history between two consecutive saves: the chat history
\* never holds more than 5 messages added since the last save.
C37_SaveEveryFiveMessages ==
    Len(conversation) - messagesAtLastSave <= AutoSaveEvery

(***************************************************************************)
(* Overlapping flushes of one session: saveConversationToSheet of the      *)
(* agent that keeps its session in its own fields, called by two tool      *)
(* calls whose awaits interleave.  A flush takes three steps: up to the    *)
(* sending of the reconciler's range read, the answer to the range read,   *)
(* and the answer to the write with the assignment of                      *)
(* lastSavedMessageIndex; addMessage may run between them.                 *)
(***************************************************************************)
\* the flushes that await an answer
inFlight == Cardinality({p \in Callers : rPc[p] # "idle"})

\* saveConversationToSheet up to the first await: the slice of the unsaved
\* messages, their lines, and the arguments of appendChatLinesToRow
FlushStart(p) ==
    /\ rPc[p] = "idle"
    /\ Len(events) + inFlight < MaxEvents
    /\ LET now == isoTime(Len(events) + inFlight + 1)
           newMessages == newMessagesOf(conversation, lastSavedMessageIndex)
       IN  IF newMessages = <<>>
           THEN /\ events' = Append(events,
                        [caller |-> p, step |-> "nothing", from |-> lastSavedMessageIndex,
                         lines |-> <<>>, saved |-> lastSavedMessageIndex,
                         outcome |-> "none", rowIndex |-> 0, readOk |-> TRUE,
                         before |-> sheet])
                /\ UNCHANGED <<rPc, rArgs>>
           ELSE /\ rArgs' = [rArgs EXCEPT ![p] =
                        [email |-> flushEmail(tracker, userEmail),
                         contact |-> flushContact(tracker, userContactNumber),
                         lines |-> formatLines(newMessages),
                         meta |-> <<now, summaryOf(Len(conversation), Len(newMessages)),
                                    "u1">>,
                         from |-> lastSavedMessageIndex, readOk |-> TRUE]]
                /\ rPc' = [rPc EXCEPT ![p] = "started"]
                /\ events' = events
    /\ UNCHANGED <<normVars, findVars, calls, tokVars, sheet, rFound, sessVars>>

\* the answer to the range read of the reconciler's lookup
FlushLookup(p, readOk) ==
    /\ rPc[p] = "started"
    /\ rFound' = [rFound EXCEPT ![p] =
                     findRowByEmailAndContact(sheet, rArgs[p].email, rArgs[p].contact,
                                              readOk)]
    /\ rArgs' = [rArgs EXCEPT ![p].readOk = readOk]
    /\ rPc' = [rPc EXCEPT ![p] = "looked"]
    /\ UNCHANGED <<normVars, findVars, calls, tokVars, sheet, events, sessVars>>

\* the answer to the reconciler's write, and then
\* this.lastSavedMessageIndex = this.conversation.length; a failed write
\* throws and the catch leaves the index as it is
FlushWrite(p, writeOk) ==
    /\ rPc[p] = "looked"
    /\ LET a == rArgs[p]
           ev == [caller |-> p, from |-> a.from, lines |-> a.lines,
                  rowIndex |-> IF rFound[p].found THEN rFound[p].rowIndex
                               ELSE Len(sheet) + 1,
                  readOk |-> a.readOk, before |-> sheet]
       IN  IF ~writeOk
           THEN /\ sheet' = sheet
                /\ lastSavedMessageIndex' = lastSavedMessageIndex
                /\ events' = Append(events,
                        ev @@ [step |-> "failed", outcome |-> "failed",
                               saved |-> lastSavedMessageIndex])
           ELSE /\ sheet' = IF rFound[p].found
                            THEN updateRow(sheet, rFound[p].rowIndex,
                                     updatedRowOf(rFound[p], a.email, a.contact,
                                                  a.lines, a.meta))
                            ELSE appendRow(sheet, newRowOf(a.email, a.contact,
                                                           a.lines, a.meta))
                /\ lastSavedMessageIndex' = Len(conversation)
                /\ events' = Append(events,
                        ev @@ [step |-> "written",
                               outcome |-> IF rFound[p].found THEN "updated"
                                           ELSE "created",
                               saved |-> Len(conversation)])
    /\ rPc' = [rPc EXCEPT ![p] = "idle"]
    /\ rArgs' = [rArgs EXCEPT ![p] = NoArgs]
    /\ rFound' = [rFound EXCEPT ![p] = NotFound]
    /\ UNCHANGED <<normVars, findVars, calls, tokVars, tracker, userEmail, conversation,
                   userContactNumber, sPc, ops>>

\* addMessage(role, content), called between the steps of the flushes
OverlapAddMessage(turn) ==
    /\ Len(events) + inFlight < MaxEvents
    /\ conversation' = addMessage(conversation, turn[1], turn[2],
                                  isoTime(Len(events) + inFlight + 1))
    /\ events' = Append(events,
            [caller |-> 0, step |-> "turn", from |-> lastSavedMessageIndex,
             lines |-> <<>>, saved |-> lastSavedMessageIndex, outcome |-> "none",
             rowIndex |-> 0, readOk |-> TRUE, before |-> sheet])
    /\ UNCHANGED <<normVars, findVars, calls, tokVars, sheet, rPc, rArgs, rFound, tracker,
                   userEmail, userContactNumber, lastSavedMessageIndex, sPc, ops>>

\* the session after init(): the welcome message is recorded, nothing is saved
OverlapInit ==
    /\ NormIdle /\ FindIdle /\ NoCalls /\ TokIdle
    /\ sheet \in {<<HeaderRow>>, <<HeaderRow, EarlierRow>>}
    /\ rPc = [p \in Callers |-> "idle"]
    /\ rArgs = [p \in Callers |-> NoArgs]
    /\ rFound = [p \in Callers |-> NotFound]
    /\ events = <<>>
    /\ tracker = "memory"
    /\ userEmail = EmailARaw
    /\ conversation = addMessage(<<>>, "assistant", WelcomeMessage, isoTime(0))
    /\ userContactNumber = <<>>
    /\ lastSavedMessageIndex = 0
    /\ sPc = "ready"
    /\ ops = <<>>

OverlapNext ==
    \/ \E p \in Callers : FlushStart(p)
    \/ \E p \in Callers, readOk \in BOOLEAN : FlushLookup(p, readOk)
    \/ \E p \in Callers, writeOk \in BOOLEAN : FlushWrite(p, writeOk)
    \/ \E turn \in SessionTurns : OverlapAddMessage(turn)

SpecOverlap == OverlapInit /\ [][OverlapNext]_vars

\* the successful store writes whose lines include the k-th turn
writesOfTurn(k) ==
    {n \in 1..Len(events) :
        /\ events[n].step = "written"
        /\ events[n].from < k /\ k <= events[n].from + Len(events[n].lines)}

\* C32: lastSavedMessageIndex never advances past a turn that was not
\* included in a successful store write, also when the turn was recorded
\* while a flush's store round-trip was in flight.
C32_NoTurnSkipped ==
    \A k \in 1..lastSavedMessageIndex : writesOfTurn(k) # {}

\* C33: when two flushes of the same session overlap and every lookup is
\* answered, each recorded turn is in at most one successful store write and
\* the identity has at most one row.
C33_OverlapStoresTurnOnce ==
    (\A n \in 1..Len(events) : events[n].readOk)
    => /\ \A k \in 1..Len(conversation) : Cardinality(writesOfTurn(k)) <= 1
       /\ Cardinality(identityRows(sheet, flushEmail(tracker, userEmail),
                                   flushContact(tracker, userContactNumber))) <= 1

(***************************************************************************)
(* The conversation tools of the session tracker: handleUserMessage,       *)
(* importConversationHistory and getSessionStatus, next to                 *)
(* setContactNumber and saveConversation, for the agent that keeps its     *)
(* session in its own fields ("memory") and the agent that keeps it in its *)
(* storage slot ("durable").  state.storage.get hands out a copy of the    *)
(* stored session state and state.storage.put replaces the stored state:   *)
(* a handler of the durable agent works on the copy it got and stores it    *)
(* back.  Handler calls run one at a time.                                 *)
(***************************************************************************)
IsLower(c) == \E i \in 1..26 : LowerLetters[i] = c

\* \w of a regular expression
IsWordChar(c) == IsDigit(c) \/ IsUpper(c) \/ IsLower(c) \/ c = "_"

\* the first match of /\b(\d{minLen,maxLen})\b/ in message, <<>> when there is none
digitRunMatch(message, minLen, maxLen) ==
    LET matchAt(i, n) ==
            /\ i + n - 1 <= Len(message)
            /\ \A j \in i..(i + n - 1) : IsDigit(message[j])
            /\ i = 1 \/ ~IsWordChar(message[i - 1])
            /\ i + n - 1 = Len(message) \/ ~IsWordChar(message[i + n])
        starts == {i \in 1..Len(message) : \E n \in minLen..maxLen : matchAt(i, n)}
    IN  IF starts = {} THEN <<>>
        ELSE LET i == CHOOSE k \in starts : \A m \in starts : k <= m
                 n == CHOOSE k \in minLen..maxLen : matchAt(i, k)
             IN  SubSeq(message, i, i + n - 1)

\* String.prototype.includes
includes(message, word) ==
    \E i \in 1..(Len(message) - Len(word) + 1) :
        SubSeq(message, i, i + Len(word) - 1) = word

Chars_contact == <<"c", "o", "n", "t", "a", "c", "t">>
Chars_phone == <<"p", "h", "o", "n", "e">>
Chars_number == <<"n", "u", "m", "b", "e", "r">>

\* MyMCP.isContactNumber
isContactNumber(kind, message) ==
    IF kind = "durable"
    THEN \/ digitRunMatch(message, 10, 11) # <<>>
         \/ includes(toLowerCase(message), Chars_contact)
         \/ includes(toLowerCase(message), Chars_phone)
         \/ includes(toLowerCase(message), Chars_number)
    ELSE \/ digitRunMatch(message, 10, 10) # <<>>
         \/ includes(toLowerCase(message), Chars_contact)
         \/ includes(toLowerCase(message), Chars_phone)

\* String.prototype.slice(0, n)
sliceTo(s, n) == SubSeq(s, 1, IF Len(s) < n THEN Len(s) ELSE n)

\* MyMCP.extractContactNumber; a result of <<>> is the empty string, which
\* the agents treat as they treat null
extractContactNumber(kind, message) ==
    IF kind = "durable"
    THEN LET match == digitRunMatch(message, 10, 11)
         IN  IF match # <<>> THEN MyMCP_normalizeContactNumber(match)
             ELSE MyMCP_normalizeContactNumber(sliceTo(digitsOnly(message), 11))
    ELSE LET match == digitRunMatch(message, 10, 10)
         IN  IF match # <<>> THEN match ELSE sliceTo(digitsOnly(message), 10)

\* the session state: the fields of the agent, or the stored SessionState
sessionState(conv, contactNumber, lastSaved) ==
    [conversation |-> conv, userContactNumber |-> contactNumber,
     lastSavedMessageIndex |-> lastSaved]

\* the session state and the sheet a flush f leaves
flushState(st, f) ==
    [state |-> [st EXCEPT !.lastSavedMessageIndex = f.lastSavedMessageIndex],
     sheet |-> f.sheet, flush |-> f]

\* the flush at the end of a handler on the session state st
flushOf(kind, email, st, sh, now, readOk, writeOk) ==
    flushState(st, saveConversationToSheet(kind, email, st.conversation,
                       st.userContactNumber, st.lastSavedMessageIndex, sh, now,
                       readOk, writeOk))

\* a handler that ends without a flush
noFlushOf(st, sh) == [state |-> st, sheet |-> sh, flush |-> NoFlush]

\* the handleUserMessage tool.  Durable agent: sessionState is the copy got
\* at the start; the two addMessage calls store their own copies; when the
\* message is a contact number the copy got at the start is stored back with
\* the number.
handleUserMessage(kind, email, st, userMessage, assistantResponse, saveToSheet, sh, now, readOk, writeOk) ==
    LET added == addMessage(addMessage(st.conversation, "user", text(userMessage), now),
                            "assistant", text(assistantResponse), now)
        recognised == isContactNumber(kind, userMessage)
        extracted == extractContactNumber(kind, userMessage)
        st1 == IF ~recognised THEN [st EXCEPT !.conversation = added]
               ELSE IF kind = "durable" THEN [st EXCEPT !.userContactNumber = extracted]
               ELSE [st EXCEPT !.conversation = added, !.userContactNumber = extracted]
    IN  IF saveToSheet THEN flushOf(kind, email, st1, sh, now, readOk, writeOk)
        ELSE noFlushOf(st1, sh)

RECURSIVE addMessages(_, _, _)
addMessages(conv, messages, now) ==
    IF messages = <<>> THEN conv
    ELSE addMessages(addMessage(conv, messages[1].role, text(messages[1].content), now),
                     Tail(messages), now)

\* the contact number the import takes from the first user message that is
\* recognised as one; current when there is none
importedContact(kind, messages, current) ==
    LET hits == {k \in 1..Len(messages) :
                    /\ messages[k].role = "user"
                    /\ isContactNumber(kind, messages[k].content)}
    IN  IF hits = {} THEN current
        ELSE extractContactNumber(kind,
                 messages[CHOOSE k \in hits : \A m \in hits : k <= m].content)

\* faulty variant: the import leaves lastSavedMessageIndex as it is
importConversationHistory_keepsIndex(kind, email, st, messages, sh, now, readOk, writeOk) ==
    flushOf(kind, email,
            sessionState(IF kind = "durable" THEN <<>> ELSE addMessages(<<>>, messages, now),
                         importedContact(kind, messages, st.userContactNumber),
                         st.lastSavedMessageIndex),
            sh, now, readOk, writeOk)

\* the importConversationHistory tool.  Durable agent: the copy got at the
\* start is emptied, the addMessage calls store their own copies, and the
\* emptied copy is stored back before the flush.
importConversationHistory(kind, email, st, messages, sh, now, readOk, writeOk) ==
    flushOf(kind, email,
            sessionState(IF kind = "durable" THEN <<>> ELSE addMessages(<<>>, messages, now),
                         importedContact(kind, messages, st.userContactNumber),
                         0),
            sh, now, readOk, writeOk)

\* the status object of the getSessionStatus tool
getSessionStatus(st) ==
    [totalMessages |-> Len(st.conversation),
     unsavedMessages |-> Len(st.conversation) - st.lastSavedMessageIndex]

Chars_hi == <<"h", "i">>
Chars_ok == <<"o", "k">>
Chars_myPhone == <<"m", "y", " ", "p", "h", "o", "n", "e">>

\* user messages: not a contact number, a contact number, and a mention of a
\* phone without digits
UserMessages == {Chars_hi, Phone10, Chars_myPhone}

ImportedHistories ==
    {<<[role |-> "user", content |-> Chars_hi]>>,
     <<[role |-> "user", content |-> Phone10],
       [role |-> "assistant", content |-> Chars_ok]>>}

ToolsInit ==
    /\ NormIdle /\ FindIdle /\ NoCalls /\ RaceIdle /\ TokIdle
    /\ sheet \in {<<HeaderRow>>, <<HeaderRow, OldRow>>}
    /\ tracker \in Trackers
    /\ userEmail = EmailARaw
    /\ conversation = <<>>
    /\ userContactNumber = <<>>
    /\ lastSavedMessageIndex = 0
    /\ sPc = "new"
    /\ ops = <<>>

\* a handler that leaves the session state and the sheet of r; its record
\* also holds the conversation before and after the call
toolCall(op, arg, ok, r) ==
    /\ conversation' = r.state.conversation
    /\ userContactNumber' = r.state.userContactNumber
    /\ lastSavedMessageIndex' = r.state.lastSavedMessageIndex
    /\ sheet' = r.sheet
    /\ ops' = Append(ops, opRecord(op, arg, "", ok, r.flush, sheet)
                               @@ [conversationBefore |-> conversation,
                                   stateAfter |-> r.state])
    /\ UNCHANGED <<normVars, findVars, calls, raceVars, tokVars, tracker, userEmail, sPc>>

HandleUserMessage(userMessage, saveToSheet, ok) ==
    /\ sPc = "ready"
    /\ Len(ops) < MaxToolCalls
    /\ toolCall("handleUserMessage", userMessage, ok,
           handleUserMessage(tracker, userEmail,
               sessionState(conversation, userContactNumber, lastSavedMessageIndex),
               userMessage, Chars_ok, saveToSheet, sheet, isoTime(Len(ops) + 1),
               ok[1], ok[2]))

ImportConversationHistory(messages, ok) ==
    /\ sPc = "ready"
    /\ Len(ops) < MaxToolCalls
    /\ toolCall("importConversationHistory", messages, ok,
           importConversationHistory(tracker, userEmail,
               sessionState(conversation, userContactNumber, lastSavedMessageIndex),
               messages, sheet, isoTime(Len(ops) + 1), ok[1], ok[2]))

GetSessionStatus ==
    /\ sPc = "ready"
    /\ Len(ops) < MaxToolCalls
    /\ toolCall("getSessionStatus",
                getSessionStatus(sessionState(conversation, userContactNumber,
                                              lastSavedMessageIndex)),
                <<TRUE, TRUE>>,
                noFlushOf(sessionState(conversation, userContactNumber,
                                       lastSavedMessageIndex), sheet))

ToolsNext ==
    \/ \E ok \in sessionOutcomes : InitSession(ok)
    \/ \E m \in UserMessages, s \in BOOLEAN, ok \in sessionOutcomes :
          HandleUserMessage(m, s, ok)
    \/ \E h \in ImportedHistories, ok \in sessionOutcomes : ImportConversationHistory(h, ok)
    \/ \E c \in SessionContacts, ok \in sessionOutcomes :
          Len(ops) < MaxToolCalls /\ SetContactNumber(c, ok)
    \/ \E ok \in sessionOutcomes : Len(ops) < MaxToolCalls /\ SaveConversation(ok)
    \/ GetSessionStatus

SpecTools == ToolsInit /\ [][ToolsNext]_vars

\* the roles and the contents of the turns of conv, in order
turnsOf(conv) == [k \in 1..Len(conv) |-> <<conv[k].role, conv[k].content>>]

\* C34: in the durable-slot tracker, after handleUserMessage(userMessage,
\* assistantResponse) returns, the stored conversation is the conversation
\* before the call followed by the user turn and the assistant turn, for every
\* userMessage, also one recognised as a contact number.
C34_HandleUserMessageKeepsTurns ==
    tracker = "durable"
    => \A n \in 1..Len(ops) :
          ops[n].op = "handleUserMessage"
          => turnsOf(ops[n].stateAfter.conversation) =
                 turnsOf(ops[n].conversationBefore)
                     \o <<<<"user", text(ops[n].arg)>>, <<"assistant", text(Chars_ok)>>>>

\* C35: in the durable-slot tracker, after importConversationHistory(messages)
\* returns, the stored conversation consists of exactly the imported messages
\* in their order, and when a contact number is set all of them have been
\* flushed by that call when its requests succeeded, with
\* lastSavedMessageIndex equal to their number.
C35_ImportStoresAndFlushes ==
    tracker = "durable"
    => \A n \in 1..Len(ops) :
          ops[n].op = "importConversationHistory"
          => /\ turnsOf(ops[n].stateAfter.conversation) =
                    [k \in 1..Len(ops[n].arg) |->
                        <<ops[n].arg[k].role, text(ops[n].arg[k].content)>>]
             /\ (ops[n].stateAfter.userContactNumber # <<>>
                 /\ ops[n].readOk /\ ops[n].writeOk)
                => /\ ops[n].result = "saved"
                   /\ Len(ops[n].lines) = Len(ops[n].arg)
                   /\ ops[n].stateAfter.lastSavedMessageIndex = Len(ops[n].arg)

\* C36: in every reachable state of a session, after any sequence of record,
\* set-contact, import, flush (successful or failed) and status calls,
\* 0 <= lastSavedMessageIndex <= number of turns of the conversation, and the
\* unsaved-message count of getSessionStatus is not negative.
C36_SavedIndexWithinConversation ==
    /\ 0 <= lastSavedMessageIndex
    /\ lastSavedMessageIndex <= Len(conversation)
    /\ getSessionStatus(sessionState(conversation, userContactNumber,
                                     lastSavedMessageIndex)).unsavedMessages >= 0
    /\ \A n \in 1..Len(ops) :
          ops[n].op = "getSessionStatus" => ops[n].arg.unsavedMessages >= 0

\* a flush saved three turns, then an import replaced them by one message
\* and its flush failed
C36_Witness ==
    /\ Len(ops) = 3
    /\ ops[2].op = "handleUserMessage" /\ ops[2].result = "saved" /\ ops[2].saved = 3
    /\ ops[3].op = "importConversationHistory" /\ ops[3].result = "error"
    /\ Len(conversation) = 1
    /\ lastSavedMessageIndex = 0

(***************************************************************************)
(* The row store client that refreshes its bearer token:                   *)
(* refreshAccessTokenIfNeeded, appendRow and ensureHeaders.  Calls run one *)
(* at a time; times are in milliseconds.                                   *)
(***************************************************************************)
RefreshBufferMs == 60000     \* "Token is still valid (with 1 min buffer)"

\* the header row this client writes
Token_HeaderRow ==
    <<"Timestamp", Chars_UserEmail, Chars_ContactNumber,
      "User Message", "Assistant Response", "User ID">>

\* the answers of the token endpoint: response.ok, and the access_token ("" when
\* the body has none) and expires_in (seconds, 0 when the body has none) of the
\* body
RefreshResponses ==
    {[ok |-> FALSE, access_token |-> "", expires_in |-> 0],
     [ok |-> TRUE, access_token |-> "", expires_in |-> 0],
     [ok |-> TRUE, access_token |-> "new", expires_in |-> 61],
     [ok |-> TRUE, access_token |-> "new", expires_in |-> 0]}

NoResponse == [ok |-> TRUE, access_token |-> "", expires_in |-> -1]

hasCredentials(creds) ==
    creds.refreshToken # "" /\ creds.clientId # "" /\ creds.clientSecret # ""

\* faulty variant: the token is refreshed only once it has expired
refreshNeeded_noBuffer(creds, expiry, t) ==
    hasCredentials(creds) /\ ~(expiry # 0 /\ t < expiry)

\* the two early returns of refreshAccessTokenIfNeeded: whether it goes on to
\* the token request
refreshNeeded(creds, expiry, t) ==
    /\ ~(creds.refreshToken = "" \/ creds.clientId = "" \/ creds.clientSecret = "")
    /\ ~(expiry # 0 /\ t < expiry - RefreshBufferMs)

\* refreshAccessTokenIfNeeded at time t, the token endpoint answering with
\* response when asked: the token and expiry it leaves, whether it sent the
\* token request, whether it threw
refreshAccessTokenIfNeeded(token, expiry, creds, t, response) ==
    IF ~refreshNeeded(creds, expiry, t)
    THEN [accessToken |-> token, tokenExpiry |-> expiry, sent |-> FALSE, threw |-> FALSE]
    ELSE IF ~response.ok
    THEN [accessToken |-> token, tokenExpiry |-> expiry, sent |-> TRUE, threw |-> TRUE]
    ELSE [accessToken |-> IF response.access_token # "" THEN response.access_token
                          ELSE token,
          tokenExpiry |-> IF response.expires_in > 0
                          THEN t + response.expires_in * 1000
                          ELSE expiry,
          sent |-> TRUE, threw |-> FALSE]

\* the answers the token endpoint may give to a refreshAccessTokenIfNeeded
responsesFor(creds, expiry, t) ==
    IF refreshNeeded(creds, expiry, t) THEN RefreshResponses ELSE {NoResponse}

\* the record of one refreshAccessTokenIfNeeded and of the store request after
\* it: request is "none" when no store request was sent
storeCall(op, request, t, token, expiry, response, r, ok) ==
    [op |-> op, request |-> request, at |-> t, tokenBefore |-> token,
     expiryBefore |-> expiry, refreshSent |-> r.sent,
     response |-> IF r.sent THEN response ELSE NoResponse,
     threw |-> r.threw, tokenSent |-> IF request = "none" THEN "" ELSE r.accessToken,
     ok |-> ok]

CredentialSets ==
    {[refreshToken |-> a, clientId |-> b, clientSecret |-> c] :
        a \in {"", "rt"}, b \in {"", "id"}, c \in {"", "secret"}}

\* the time that passes before a call
Elapsed == {0, 999, 1000}

TokenRow == <<"t1", EmailA, Phone10, "hi", "hello", "u1">>

TokInit ==
    /\ NormIdle /\ FindIdle /\ NoCalls /\ RaceIdle /\ SessIdle
    /\ sheet \in {<<>>, <<Token_HeaderRow>>}
    /\ accessToken = "old"
    /\ tokenExpiry = 0
    /\ credentials \in CredentialSets
    /\ clock = 1000
    /\ storeCalls = <<>>

\* appendRow(values)
Token_AppendRow(elapsed, response, ok) ==
    /\ Len(storeCalls) + 1 <= MaxStoreCalls
    /\ LET t == clock + elapsed
           r == refreshAccessTokenIfNeeded(accessToken, tokenExpiry, credentials, t, response)
       IN  /\ response \in responsesFor(credentials, tokenExpiry, t)
           /\ clock' = t
           /\ accessToken' = r.accessToken
           /\ tokenExpiry' = r.tokenExpiry
           /\ IF r.threw
              THEN /\ sheet' = sheet
                   /\ storeCalls' = Append(storeCalls,
                          storeCall("appendRow", "none", t, accessToken, tokenExpiry,
                                    response, r, FALSE))
              ELSE /\ sheet' = IF ok THEN appendRow(sheet, TokenRow) ELSE sheet
                   /\ storeCalls' = Append(storeCalls,
                          storeCall("appendRow", "POST", t, accessToken, tokenExpiry,
                                    response, r, ok))
    /\ UNCHANGED <<normVars, findVars, calls, raceVars, sessVars, credentials>>

\* ensureHeaders(): the read of Sheet1!A1:F1 and, when it finds no values, the
\* appendRow of the header row
Token_EnsureHeaders(elapsed, response, readOk, response2, writeOk) ==
    /\ Len(storeCalls) + 2 <= MaxStoreCalls
    /\ LET t == clock + elapsed
           r == refreshAccessTokenIfNeeded(accessToken, tokenExpiry, credentials, t, response)
           r2 == refreshAccessTokenIfNeeded(r.accessToken, r.tokenExpiry, credentials, t,
                                            response2)
           read == storeCall("ensureHeaders", IF r.threw THEN "none" ELSE "GET", t,
                             accessToken, tokenExpiry, response, r, readOk /\ ~r.threw)
           write == storeCall("appendRow", IF r2.threw THEN "none" ELSE "POST", t,
                              r.accessToken, r.tokenExpiry, response2, r2,
                              writeOk /\ ~r2.threw)
           appends == ~r.threw /\ readOk /\ getValues(sheet, 1, 1) = <<>>
       IN  /\ response \in responsesFor(credentials, tokenExpiry, t)
           /\ response2 \in IF appends
                            THEN responsesFor(credentials, r.tokenExpiry, t)
                            ELSE {NoResponse}
           /\ appends \/ writeOk
           /\ clock' = t
           /\ accessToken' = IF appends THEN r2.accessToken ELSE r.accessToken
           /\ tokenExpiry' = IF appends THEN r2.tokenExpiry ELSE r.tokenExpiry
           /\ sheet' = IF appends /\ ~r2.threw /\ writeOk
                       THEN appendRow(sheet, Token_HeaderRow)
                       ELSE sheet
           /\ storeCalls' = IF appends THEN storeCalls \o <<read, write>>
                            ELSE Append(storeCalls, read)
    /\ UNCHANGED <<normVars, findVars, calls, raceVars, sessVars, credentials>>

TokNext ==
    \/ \E elapsed \in Elapsed, response \in RefreshResponses \cup {NoResponse},
          ok \in BOOLEAN : Token_AppendRow(elapsed, response, ok)
    \/ \E elapsed \in Elapsed, response, response2 \in RefreshResponses \cup {NoResponse},
          readOk, writeOk \in BOOLEAN :
            Token_EnsureHeaders(elapsed, response, readOk, response2, writeOk)

SpecToken == TokInit /\ [][TokNext]_vars

\* C22: when refresh credentials are configured and the token exchange fails,
\* the pending store operation fails with the refresh error and sends no
\* request to the row store; after a failed or unusable refresh response no
\* store request is sent with the old token.
C22_NoRequestAfterFailedRefresh ==
    \A n \in 1..Len(storeCalls) :
        LET c == storeCalls[n]
        IN  /\ (c.refreshSent /\ ~c.response.ok)
               => c.threw /\ c.request = "none"
            /\ (c.refreshSent /\ (~c.response.ok \/ c.response.access_token = ""))
               => ~(c.request # "none" /\ c.tokenSent = c.tokenBefore)

\* the time left to the expiry of the token when the n-th record was made
timeLeft(n) == storeCalls[n].expiryBefore - storeCalls[n].at

\* C23 as stated: a token-refresh request goes before a store call exactly
\* when refresh token, client id and client secret are all configured and the
\* expiry of the token is unknown or less than 60 seconds away; otherwise the
\* call proceeds with the current token and no refresh request is sent.
C23_RefreshWhenLessThanBuffer ==
    \A n \in 1..Len(storeCalls) :
        LET c == storeCalls[n]
            due == /\ credentials.refreshToken # "" /\ credentials.clientId # ""
                   /\ credentials.clientSecret # ""
                   /\ (c.expiryBefore = 0 \/ timeLeft(n) < 60000)
        IN  /\ c.refreshSent <=> due
            /\ ~due => c.request # "none" /\ c.tokenSent = c.tokenBefore

\* C23, amended: a token-refresh request goes before a store call exactly when
\* refresh token, client id and client secret are all configured and the
\* expiry of the token is unknown or at most 60 seconds away; otherwise the
\* call proceeds with the current token and no refresh request is sent.
C23_RefreshWhenWithinBuffer ==
    \A n \in 1..Len(storeCalls) :
        LET c == storeCalls[n]
            due == /\ credentials.refreshToken # "" /\ credentials.clientId # ""
                   /\ credentials.clientSecret # ""
                   /\ (c.expiryBefore = 0 \/ timeLeft(n) <= 60000)
        IN  /\ c.refreshSent <=> due
            /\ ~due => c.request # "none" /\ c.tokenSent = c.tokenBefore

C23_Witness ==
    /\ Len(storeCalls) = 2
    /\ storeCalls[1].refreshSent /\ storeCalls[1].expiryBefore = 0
    /\ storeCalls[2].expiryBefore # 0
    /\ timeLeft(2) = 60000
    /\ storeCalls[2].refreshSent
    /\ storeCalls[2].request = "POST" /\ storeCalls[2].tokenSent = "new"

(***************************************************************************)
(* Claims about the key normalizers (checked under SpecNorm)               *)
(***************************************************************************)
AllDigits(s) == \A i \in 1..Len(s) : IsDigit(s[i])

NormPhoneDone(variants) ==
    nPc # "input" /\ nIn.kind = "phone" /\ nIn.variant \in variants

\* C7: normalizeContactNumber(raw) returns the digits of raw (the last ten of
\* them when there are eleven and the first is 1), in every case a digits-only
\* string and never the raw input.
C7_ReturnsStrippedDigits ==
    NormPhoneDone({"service", "durable"}) =>
        LET d == digitsOnly(nIn.text)
        IN  nOut = IF Len(d) = 11 /\ d[1] = "1" THEN SubSeq(d, 2, 11) ELSE d

\* C8: normalizeContactNumber is idempotent: normalizing the result of a
\* normalization gives that result again (every variant of the normalizer).
C8_NormalizePhoneIdempotent ==
    (nPc = "twice" /\ nIn.kind = "phone") => nOut2 = nOut

C8_Witness ==
    /\ nPc = "twice" /\ nIn.kind = "phone" /\ nIn.variant = "service"
    /\ nIn.text = PhoneIntl
    /\ nOut = Phone10 /\ nOut2 = Phone10

\* C9: for every 10-digit string d, normalizeContactNumber("1" + d) and
\* normalizeContactNumber(d) are both d.
C9_CountryCodeDropped ==
    (NormPhoneDone({"service"}) /\ AllDigits(nIn.text)) =>
        /\ Len(nIn.text) = 10 => nOut = nIn.text
        /\ (Len(nIn.text) = 11 /\ nIn.text[1] = "1") =>
               (Len(nOut) = 10 /\ <<"1">> \o nOut = nIn.text)

C9_Witness ==
    /\ NormPhoneDone({"service"})
    /\ nIn.text = Phone11
    /\ nOut = Phone10

\* C10: normalizeEmail returns its input without the surrounding whitespace
\* and with every letter in lower case; "  Foo@Bar.com " gives "foo@bar.com".
C10_NormalizeEmailTrimsAndLowers ==
    (nPc = "once" /\ nIn.kind = "email") =>
        LET t == nIn.text
        IN  /\ \E a, b \in 0..Len(t) :
                /\ a + b <= Len(t)
                /\ \A i \in 1..a : IsSpace(t[i])
                /\ \A i \in (Len(t) - b + 1)..Len(t) : IsSpace(t[i])
                /\ Len(nOut) = Len(t) - a - b
                /\ nOut # <<>> => (~IsSpace(nOut[1]) /\ ~IsSpace(nOut[Len(nOut)]))
                /\ \A i \in 1..Len(nOut) :
                      /\ ~IsUpper(nOut[i])
                      /\ \/ nOut[i] = t[a + i]
                         \/ \E k \in 1..26 : UpperLetters[k] = t[a + i]
                                             /\ LowerLetters[k] = nOut[i]
            /\ t = EmailFooBar =>
                   nOut = <<"f", "o", "o", "@", "b", "a", "r", ".", "c", "o", "m">>

C10_Witness ==
    /\ nPc = "once" /\ nIn.kind = "email"
    /\ nIn.text = EmailFooBar
    /\ nOut = <<"f", "o", "o", "@", "b", "a", "r", ".", "c", "o", "m">>


=============================================================================
